---- MODULE Spec2Model ----
(***************************************************************************)
(* Model of the Daikin synchronization engines                             *)
(*   DaikinACMatterDeviceAN22ZRS  (air conditioner, family "AC")           *)
(*   DaikinAPMatterDeviceACK70Z   (air purifier,    family "AP")           *)
(* together with the transport (utils/dsiotRequest.ts), the platform       *)
(* lifecycle that drives one engine (module.ts) and the async-lock the     *)
(* engines use as refreshLock.                                             *)
(*                                                                         *)
(* One engine and one physical device are modelled.  Every await of the    *)
(* source is a point where another handler, timer tick or response may     *)
(* run; the code between two awaits is one atomic action.                  *)
(*                                                                         *)
(* Modelled operations: connect, createEndpoint / registerWithPlatform,    *)
(* destroy, the timer's refreshDeviceStatus, restoreState under the        *)
(* refreshLock, the on / off command handlers, the Thermostat systemMode   *)
(* handler (AC) and the ModeSelect currentMode handler (AP).  The other    *)
(* attribute handlers follow the pattern of the currentMode handler.       *)
(* onConfigure's extra restoreState() is not modelled.  An unhandled       *)
(* promise rejection is taken to be logged by the host, not to end it.     *)
(***************************************************************************)
EXTENDS Integers, Sequences, FiniteSets, TLC

\* Bounds of the model ------------------------------------------------------
\* number of handler / timer invocations of one recorded run
MaxInv == 2
\* number of environment events (the transport failing or recovering, the device
\* being switched with its remote control) of one recorded run
MaxEnv == 1

\* largest magnitude of the mantissa of a number handed to the codec
MaxMag == 130
\* largest declared width of a field in bytes (md.mx.length / 2)
MaxBytes == 2
\* largest number of segments of a path handed to the tree walkers
MaxPath == 3
\* addresses in the platform's list
MaxIPs == 2
\* calls of onShutdown in one run
MaxShutdowns == 3

\* Leaves of the device tree that the modelled code reads or writes ---------
MAC == "adp_i/mac"
NAME == "adp_d/name"
POWER == "e_1002/e_A002/p_01"
TEMP == "e_1002/e_A00B/p_01"
SOUND == "e_1002/e_3003/p_2D"
MODE_AC == "e_1002/e_3001/p_01"
MODE_AP == "e_1002/e_3007/p_01"
MODE_HUM_AP == "e_1002/e_3007/p_03"
HUM_ON_AP == "e_1002/e_3001/p_3F"
HUM_LEVEL_AP == "e_1002/e_3007/p_13"
FAN_AP == "e_1002/e_3007/p_04"
FAN_HUM_AP == "e_1002/e_3007/p_06"
FANSPEED_HEAT == "e_1002/e_3001/p_0A"
FANSPEED_COOL == "e_1002/e_3001/p_09"

Families == {"AC", "AP"}

\* "undefined" of an optional field is the empty sequence, a value v is <<v>>
Undefined == << >>
Some(v) == <<v>>
Get(o) == o[1]

\* The one-byte wire values used by the modelled leaves (step 0, max length
\* 2 hex digits): encodePvInt / decodePvToInt restricted to 0..5.
Bytes == <<"00", "01", "02", "03", "04", "05">>
encodePvInt(n) == Bytes[n + 1]
\* parseSignedHex: parseInt() of a string that is not hexadecimal is NaN, and
\* the shifts turn NaN into 0; nothing is thrown
parseSignedHex(pv) ==
  IF \E n \in 0..(Len(Bytes) - 1) : Bytes[n + 1] = pv
  THEN CHOOSE n \in 0..(Len(Bytes) - 1) : Bytes[n + 1] = pv
  ELSE 0
decodePvToInt(pv) == parseSignedHex(pv)
\* a wire value that is not hexadecimal
Malformed == "ZZ"

\* enum DaikinModeAC (the two modes the modelled device is switched between)
Heat == 1
Cool == 2
\* enum DaikinOperationSoundAC.RemoconSoundOnly
RemoconSoundOnly == 4
\* enum DaikinModeAP: Auto forces auto-humidify, FlowAuto does not
ModeAPAuto == 0
ModeAPFlowAuto == 2
\* enum DaikinHumidifyLevelAP
HumOff == 0
HumAuto == 100
\* enum DaikinModeAP.FixedFlow, enum DaikinFanSpeedAP.Auto
ModeAPFixedFlow == 1
FanAuto == 100
\* encodePvInt / decodePvToInt on the fan-speed leaves, whose values are those
\* of Bytes and 100 (0x64)
encodeFanSpeed(n) == IF n = FanAuto THEN "64" ELSE encodePvInt(n)
decodeFanSpeed(pv) == IF pv = "64" THEN FanAuto ELSE decodePvToInt(pv)

\* enum DaikinFanSpeedAC: Auto, Speed1, Speed3
FanSpeedACAuto == 10
FanSpeedACSpeed1 == 3
FanSpeedACSpeed3 == 5
\* encodePvInt / decodePvToInt on the AC fan-speed leaves, whose values are
\* those of Bytes and 10 (0x0A)
encodeFanSpeedAC(n) == IF n = FanSpeedACAuto THEN "0A" ELSE encodePvInt(n)
decodeFanSpeedAC(pv) == IF pv = "0A" THEN FanSpeedACAuto ELSE decodePvToInt(pv)
\* FanSpeedPnMap: the fan-speed leaf of an operation mode
FanSpeedPnMap(mode) ==
  CASE mode = Heat -> FANSPEED_HEAT
    [] mode = Cool -> FANSPEED_COOL

DaikinModeAPForceAutoHumidifyMap(m) == m \in {0, 5}

DevModes(f) == IF f = "AC" THEN {Heat, Cool} ELSE {ModeAPAuto, ModeAPFlowAuto}
InitialMode(f) == IF f = "AC" THEN Heat ELSE ModeAPFlowAuto

\* The device tree: leaf name -> wire value.  A device of either family
\* starts well-formed; an AP device is in the humidify state its mode forces.
DeviceTree(f, power, mode) ==
  IF f = "AC"
  THEN (MAC :> "AA:BB") @@ (NAME :> "Living") @@ (POWER :> (IF power THEN "01" ELSE "00"))
       @@ (TEMP :> "05") @@ (SOUND :> "04") @@ (MODE_AC :> encodePvInt(mode))
       @@ (FANSPEED_HEAT :> encodeFanSpeedAC(FanSpeedACSpeed1))
       @@ (FANSPEED_COOL :> encodeFanSpeedAC(FanSpeedACSpeed1))
  ELSE (MAC :> "AA:BB") @@ (NAME :> "Living") @@ (POWER :> (IF power THEN "01" ELSE "00"))
       @@ (TEMP :> "05") @@ (MODE_AP :> encodePvInt(ModeAPFlowAuto)) @@ (MODE_HUM_AP :> encodePvInt(ModeAPAuto))
       @@ (HUM_ON_AP :> (IF DaikinModeAPForceAutoHumidifyMap(mode) THEN "02" ELSE "00"))
       @@ (HUM_LEVEL_AP :> "01") @@ (FAN_AP :> "00") @@ (FAN_HUM_AP :> "00")

Without(tree, leaf) == [l \in (DOMAIN tree) \ {leaf} |-> tree[l]]

\* A patch is a partial tree: leaf name -> new wire value
NoPatch == [l \in {} |-> ""]
Leaf(l, pv) == l :> pv
\* DsiotQuery.combineObject on single-leaf fragments: src overwrites dst
combineObject(dst, src) == src @@ dst
\* The device applies a write request to its tree
ApplyPatch(tree, patch) ==
  [l \in DOMAIN tree |-> IF l \in DOMAIN patch THEN patch[l] ELSE tree[l]]

\* DsiotQuery.extractValueString: "absent" is undefined, never an error
extractValueString(tree, leaf) == IF leaf \in DOMAIN tree THEN Some(tree[leaf]) ELSE Undefined
\* DsiotQuery.extractValueInt throws when the leaf is absent
extractValueIntThrows(tree, leaf) == leaf \notin DOMAIN tree
extractValueInt(tree, leaf) == decodePvToInt(tree[leaf])

\* Responses of the transport --------------------------------------------------
\* status 200 with a tree, or anything else (network error, timeout, non-200)
OkResponse(tree) == [status |-> 200, tree |-> tree]
ErrResponse == [status |-> 0, tree |-> NoPatch]
\* What a query can return: the full tree while the device is reachable and
\* well; otherwise an error, a tree with an empty identity, a tree lacking a
\* numeric leaf, or a tree with a malformed numeric leaf.
Responses(tree, up) ==
  IF up
  THEN {OkResponse(tree)}
  ELSE {ErrResponse, OkResponse([tree EXCEPT ![MAC] = ""]), OkResponse(Without(tree, TEMP)),
        OkResponse([tree EXCEPT ![TEMP] = Malformed])}

\* utils/dsiotRequest.ts queryDevice: throws unless the status is 200
queryDeviceThrows(r) == r.status # 200

\* getIsFixedHumidify / getOperationMode / getHumidifyLevel (AP)
getIsFixedHumidify(tree) == extractValueString(tree, HUM_ON_AP) # Some("00")
OperationModeLeafAP(tree) == IF ~getIsFixedHumidify(tree) THEN MODE_AP ELSE MODE_HUM_AP
\* Variant of getHumidifyLevel that reads the stored level whatever the mode
getHumidifyLevelStored(tree) ==
  IF ~getIsFixedHumidify(tree) THEN HumOff ELSE extractValueInt(tree, HUM_LEVEL_AP)

getHumidifyLevel(tree) ==
  LET mode == extractValueInt(tree, OperationModeLeafAP(tree))
  IN IF DaikinModeAPForceAutoHumidifyMap(mode) THEN HumAuto
     ELSE IF ~getIsFixedHumidify(tree) THEN HumOff
     ELSE extractValueInt(tree, HUM_LEVEL_AP)

\* getFanSpeed (AP): Auto unless the mode is FixedFlow
getFanSpeed(tree) ==
  IF extractValueInt(tree, OperationModeLeafAP(tree)) # ModeAPFixedFlow THEN FanAuto
  ELSE decodeFanSpeed(tree[IF ~getIsFixedHumidify(tree) THEN FAN_AP ELSE FAN_HUM_AP])

\* getFanSpeed (AC): the fan-speed leaf of the mode the tree is in
getFanSpeedAC(tree) == decodeFanSpeedAC(tree[FanSpeedPnMap(extractValueInt(tree, MODE_AC))])

\* getCurrentStatus: the leaves read through extractValueInt throw when absent,
\* the leaves read through extractValueString decode to undefined / false
getCurrentStatusThrows(f, tree) ==
  \/ extractValueIntThrows(tree, TEMP)
  \/ f = "AC" /\ extractValueIntThrows(tree, MODE_AC)
  \/ f = "AP" /\ extractValueIntThrows(tree, OperationModeLeafAP(tree))

getCurrentStatus(f, tree) ==
  IF f = "AC"
  THEN [macAddress |-> extractValueString(tree, MAC),
        deviceName |-> extractValueString(tree, NAME),
        power |-> (extractValueString(tree, POWER) = Some("01")),
        mode |-> extractValueInt(tree, MODE_AC),
        humidifyLevel |-> HumOff,
        fanSpeed |-> getFanSpeedAC(tree),
        indoorTemperature |-> extractValueInt(tree, TEMP)]
  ELSE [macAddress |-> extractValueString(tree, MAC),
        deviceName |-> extractValueString(tree, NAME),
        power |-> (extractValueString(tree, POWER) = Some("01")),
        mode |-> extractValueInt(tree, OperationModeLeafAP(tree)),
        fanSpeed |-> getFanSpeed(tree),
        humidifyLevel |-> getHumidifyLevel(tree),
        indoorTemperature |-> extractValueInt(tree, TEMP)]

\* Variant of fetchError without the check of the identity field
fetchErrorNoIdentityCheck(f, r) ==
  IF queryDeviceThrows(r) THEN "query"
  ELSE IF getCurrentStatusThrows(f, r.tree) THEN "decode"
  ELSE ""

\* fetchDeviceStatus after the query has answered: "" when it assigns, otherwise
\* the reason it throws.  !status.macAddress is true of undefined and of "".
fetchError(f, r) ==
  IF queryDeviceThrows(r) THEN "query"
  ELSE IF getCurrentStatusThrows(f, r.tree) THEN "decode"
  ELSE IF getCurrentStatus(f, r.tree).macAddress \in {Undefined, Some("")} THEN "nomac"
  ELSE ""

\* Command patches ----------------------------------------------------------------
\* DsiotQuery.encodePvInt: a single-leaf fragment; it throws when the leaf is
\* not in the last-known tree
encodePvThrows(tree, leaf) == leaf \notin DOMAIN tree
encodePv(leaf, n) == Leaf(leaf, encodePvInt(n))

\* setPowerStatus: AP writes the power leaf; AC merges the operation sound into
\* the same fragment
setPowerStatus(f, power) ==
  IF f = "AC"
  THEN combineObject(Leaf(POWER, IF power THEN "01" ELSE "00"), encodePv(SOUND, RemoconSoundOnly))
  ELSE Leaf(POWER, IF power THEN "01" ELSE "00")

\* setFanSpeed (AC): the operation sound and the fan-speed leaf of operationMode
setFanSpeed(operationMode, speedMode) ==
  combineObject(encodePv(SOUND, RemoconSoundOnly),
                Leaf(FanSpeedPnMap(operationMode), encodeFanSpeedAC(speedMode)))

\* setOperationMode (AC)
setOperationMode(operationMode) ==
  combineObject(encodePv(SOUND, RemoconSoundOnly), encodePv(MODE_AC, operationMode))

\* setOperationModeAndHumidify (AP)
setOperationModeAndHumidify(operationMode, humidify) ==
  LET isFixedHumidify == humidify # HumOff /\ humidify # HumAuto
      forceAutoHumidify == DaikinModeAPForceAutoHumidifyMap(operationMode)
      plain == ~isFixedHumidify /\ ~forceAutoHumidify
      command == combineObject(encodePv(IF plain THEN MODE_AP ELSE MODE_HUM_AP, operationMode),
                               encodePv(HUM_ON_AP, IF plain THEN 0 ELSE 2))
  IN IF ~forceAutoHumidify /\ isFixedHumidify
     THEN combineObject(command, encodePv(HUM_LEVEL_AP, humidify))
     ELSE command

\* Variant of setFanSpeedAndHumidify that always writes the speed to p_04
setFanSpeedAndHumidifyPlain(speedMode, humidify) ==
  combineObject(setOperationModeAndHumidify(ModeAPFixedFlow, humidify),
                Leaf(FAN_AP, encodeFanSpeed(speedMode)))

\* setFanSpeedAndHumidify (AP): FixedFlow mode, and the fan-speed leaf that goes
\* with the humidify switch
setFanSpeedAndHumidify(speedMode, humidify) ==
  LET isFixedHumidify == humidify # HumOff /\ humidify # HumAuto
  IN combineObject(setOperationModeAndHumidify(ModeAPFixedFlow, humidify),
                   Leaf(IF ~isFixedHumidify THEN FAN_AP ELSE FAN_HUM_AP, encodeFanSpeed(speedMode)))

\* mapDaikinModeToMatter / mapMatterModeToDaikin (AC, Thermostat.SystemMode)
mapDaikinModeToMatter(power, mode) ==
  IF ~power THEN "Off"
  ELSE CASE mode = 5 -> "Dry"
         [] mode = 2 -> "Cool"
         [] mode = 1 -> "Heat"
         [] mode = 0 -> "FanOnly"
         [] mode = 3 -> "Auto"
         [] OTHER -> "Off"

\* enum DaikinHumidityModeAC
HumidityModeOff == 0
HumidityModeTarget == 1
HumidityModeMedium == 2
HumidityModeHigh == 3
HumidityModeLow == 4
HumidityModeContinuous == 6
\* enum FanControl.FanMode
FanModesAll == {"Off", "Low", "Medium", "High", "On", "Auto", "Smart"}
\* enum DaikinModeAC: FanOnly 0, Heat 1, Cool 2, Auto 3, Dry 5, Humidify 8
ModesAC == {0, 1, 2, 3, 5, 8}

\* getTargetHumidityFromFanMode: [humidity mode, target humidity] or undefined;
\* a fan mode without a case falls out of the switch
getTargetHumidityFromFanMode(mode, fanMode) ==
  IF mode \in {5, 2}
  THEN CASE fanMode = "Off" -> Some(<<HumidityModeOff, Undefined>>)
         [] fanMode = "Low" -> Some(<<HumidityModeTarget, Some(50)>>)
         [] fanMode = "Medium" -> Some(<<HumidityModeTarget, Some(55)>>)
         [] fanMode = "High" -> Some(<<HumidityModeTarget, Some(60)>>)
         [] fanMode = "Auto" -> Some(<<HumidityModeContinuous, Undefined>>)
         [] OTHER -> Undefined
  ELSE IF mode \in {8, 1}
  THEN CASE fanMode = "Off" -> Some(<<HumidityModeOff, Undefined>>)
         [] fanMode = "Low" -> Some(<<HumidityModeTarget, Some(40)>>)
         [] fanMode = "Medium" -> Some(<<HumidityModeTarget, Some(45)>>)
         [] fanMode = "High" -> Some(<<HumidityModeTarget, Some(50)>>)
         [] fanMode = "Auto" -> Some(<<HumidityModeContinuous, Undefined>>)
         [] OTHER -> Undefined
  ELSE IF mode = 3
  THEN CASE fanMode = "Off" -> Some(<<HumidityModeOff, Undefined>>)
         [] fanMode = "Low" -> Some(<<HumidityModeLow, Undefined>>)
         [] fanMode = "Medium" -> Some(<<HumidityModeMedium, Undefined>>)
         [] fanMode = "High" -> Some(<<HumidityModeHigh, Undefined>>)
         [] OTHER -> Undefined
  ELSE Undefined

\* Variant of getFanModeFromTargetHumidity with the thresholds of Dry and Cool
\* for every mode
getFanModeFromTargetHumidityOneScale(mode, value) ==
  IF value = Undefined THEN "Off"
  ELSE LET humidityMode == Get(value)[1]
           targetHumidity == Get(value)[2]
       IN CASE humidityMode = HumidityModeOff -> "Off"
            [] humidityMode = HumidityModeLow -> "Low"
            [] humidityMode = HumidityModeMedium -> "Medium"
            [] humidityMode = HumidityModeHigh -> "High"
            [] humidityMode = HumidityModeContinuous -> "Auto"
            [] humidityMode = HumidityModeTarget ->
                 IF mode \in {5, 2, 8, 1}
                 THEN IF Get(targetHumidity) >= 60 THEN "High"
                      ELSE IF Get(targetHumidity) >= 55 THEN "Medium" ELSE "Low"
                 ELSE "Off"
            [] OTHER -> "Off"

\* getFanModeFromTargetHumidity(mode, targetHumidityMap), value being
\* targetHumidityMap.get(mode)
getFanModeFromTargetHumidity(mode, value) ==
  IF value = Undefined THEN "Off"
  ELSE LET humidityMode == Get(value)[1]
           targetHumidity == Get(value)[2]
       IN CASE humidityMode = HumidityModeOff -> "Off"
            [] humidityMode = HumidityModeLow -> "Low"
            [] humidityMode = HumidityModeMedium -> "Medium"
            [] humidityMode = HumidityModeHigh -> "High"
            [] humidityMode = HumidityModeContinuous -> "Auto"
            [] humidityMode = HumidityModeTarget ->
                 IF mode \in {5, 2}
                 THEN IF Get(targetHumidity) >= 60 THEN "High"
                      ELSE IF Get(targetHumidity) >= 55 THEN "Medium" ELSE "Low"
                 ELSE IF mode \in {8, 1}
                 THEN IF Get(targetHumidity) >= 50 THEN "High"
                      ELSE IF Get(targetHumidity) >= 45 THEN "Medium" ELSE "Low"
                 ELSE "Off"
            [] OTHER -> "Off"

mapMatterModeToDaikin(m) ==
  CASE m = "Cool" -> Some(2)
    [] m = "Heat" -> Some(1)
    [] m = "Auto" -> Some(3)
    [] m = "Dry" -> Some(5)
    [] m = "FanOnly" -> Some(0)
    [] OTHER -> Undefined

\* Percent <-> level helpers ------------------------------------------------------------
\* enum DaikinFanSpeedAP: Silent 0, Speed1 1, Speed2 2, Speed3 4, Auto 100
getDaikinFanSpeedAPFromPercent(percent) ==
  IF percent <= 0 THEN 0 ELSE IF percent <= 33 THEN 1 ELSE IF percent <= 66 THEN 2 ELSE 4

getPercentFromDaikinFanSpeedAP(speed) ==
  CASE speed = 0 -> 0 [] speed = 1 -> 33 [] speed = 2 -> 66 [] speed = 4 -> 100 [] OTHER -> 0

\* enum DaikinHumidifyLevelAP: Off 0, Low 1, Medium 2, High 3, Auto 100
getDaikinHumidifyLevelAPFromPercent(percent) ==
  IF percent <= 0 THEN 0 ELSE IF percent <= 33 THEN 1 ELSE IF percent <= 66 THEN 2 ELSE 3

getPercentFromDaikinHumidifyLevelAP(level) ==
  CASE level = 0 -> 0 [] level = 1 -> 33 [] level = 2 -> 66 [] level = 3 -> 100 [] OTHER -> 0

\* Variant of getDaikinFanSpeedACFromPercent whose buckets exclude their upper limit
getDaikinFanSpeedACFromPercentOpen(percent) ==
  IF percent <= 0 THEN 10
  ELSE IF percent < 10 THEN 11
  ELSE IF percent < 20 THEN 3
  ELSE IF percent < 30 THEN 4
  ELSE IF percent < 40 THEN 5
  ELSE IF percent < 50 THEN 6
  ELSE 7

\* enum DaikinFanSpeedAC: Auto 10, Silent 11, Speed1 3, ..., Speed5 7
getDaikinFanSpeedACFromPercent(percent) ==
  IF percent <= 0 THEN 10
  ELSE IF percent <= 10 THEN 11
  ELSE IF percent <= 20 THEN 3
  ELSE IF percent <= 30 THEN 4
  ELSE IF percent <= 40 THEN 5
  ELSE IF percent <= 50 THEN 6
  ELSE 7

getPercentFromDaikinFanSpeedAC(speed) ==
  CASE speed = 10 -> 0 [] speed = 11 -> 10 [] speed = 3 -> 20 [] speed = 4 -> 30
    [] speed = 5 -> 40 [] speed = 6 -> 50 [] speed = 7 -> 100 [] OTHER -> 0

\* the helpers by kind of level: AP fan speed, AP humidify level, AC fan speed
FromPercent(kind, percent) ==
  CASE kind = "APFan" -> getDaikinFanSpeedAPFromPercent(percent)
    [] kind = "APHumidify" -> getDaikinHumidifyLevelAPFromPercent(percent)
    [] OTHER -> getDaikinFanSpeedACFromPercent(percent)
ToPercent(kind, level) ==
  CASE kind = "APFan" -> getPercentFromDaikinFanSpeedAP(level)
    [] kind = "APHumidify" -> getPercentFromDaikinHumidifyLevelAP(level)
    [] OTHER -> getPercentFromDaikinFanSpeedAC(level)

\* FanModeDaikinHumidifyLevelAPMap: Auto, On and Smart have no humidify level
FanModeDaikinHumidifyLevelAPMap(fanMode) ==
  CASE fanMode = "Off" -> Some(0)
    [] fanMode = "Low" -> Some(1)
    [] fanMode = "Medium" -> Some(2)
    [] fanMode = "High" -> Some(3)
    [] OTHER -> Undefined

\* DaikinHumidifyLevelAPFanModeMap
DaikinHumidifyLevelAPFanModeMap(level) ==
  CASE level = 0 -> "Off"
    [] level = 1 -> "Low"
    [] level = 2 -> "Medium"
    [] level = 3 -> "High"
    [] OTHER -> "Auto"

\* The attribute values one restoreState() body writes, all computed from the
\* one state object it reads when it starts
\* DaikinFanSpeedACFanModeMap / FanModeDaikinFanSpeedACMap, on the speeds and
\* fan modes of the modelled device
DaikinFanSpeedACFanModeMap(speed) ==
  CASE speed = FanSpeedACAuto -> "Auto"
    [] speed = FanSpeedACSpeed1 -> "Low"
    [] speed = FanSpeedACSpeed3 -> "Medium"
FanModeDaikinFanSpeedACMap(m) ==
  CASE m = "Auto" -> Some(FanSpeedACAuto)
    [] m = "Medium" -> Some(FanSpeedACSpeed3)
    [] OTHER -> Undefined

RestoreAttrs(f, s) ==
  IF f = "AC"
  THEN [onOff |-> s.power,
        systemMode |-> mapDaikinModeToMatter(s.power, s.mode),
        currentMode |-> s.mode,
        fanMode |-> DaikinFanSpeedACFanModeMap(s.fanSpeed),
        localTemperature |-> s.indoorTemperature * 100]
  ELSE [onOff |-> s.power,
        currentMode |-> s.mode,
        humidifyFanMode |-> DaikinHumidifyLevelAPFanModeMap(s.humidifyLevel),
        humidifyPercentSetting |-> (IF s.humidifyLevel # HumAuto
                                    THEN getPercentFromDaikinHumidifyLevelAP(s.humidifyLevel) ELSE 0),
        measuredValue |-> s.indoorTemperature * 100]

\* DaikinFanSpeedAPFanModeMap
DaikinFanSpeedAPFanModeMap(speed) ==
  CASE speed = 0 -> "Off"
    [] speed = 1 -> "Low"
    [] speed = 2 -> "Medium"
    [] speed = 4 -> "High"
    [] OTHER -> "Auto"

\* The attribute values createEndpoint() gives the clusters: those of the
\* current state, except that the humidify endpoint's fan control is created
\* with the fan mode of the main fan and the default percent setting (0)
CreateAttrs(f, s) ==
  IF f = "AC" THEN RestoreAttrs(f, s)
  ELSE [RestoreAttrs(f, s) EXCEPT !.humidifyFanMode = DaikinFanSpeedAPFanModeMap(s.fanSpeed),
                                  !.humidifyPercentSetting = 0]

\* The attribute whose subscribed handler is modelled: Thermostat systemMode
\* (AC), ModeSelect currentMode (AP)
HandledAttrs(f) == IF f = "AC" THEN {"systemMode"} ELSE {"currentMode"}
\* The values a controller writes to them
AttrValues(f, attr) ==
  IF attr = "systemMode" THEN {"Off", "Cool"} ELSE DevModes(f)

\* utils/dsiotParser.ts in full ---------------------------------------------------
\* A number is m * 10^e with integers m and e (an exact decimal; the rounding of
\* binary floating point is not modelled).  A hex string is the sequence of its
\* bytes, two hex digits each, in the order they are written.
RECURSIVE Pow(_, _)
Pow(b, n) == IF n = 0 THEN 1 ELSE b * Pow(b, n - 1)
\* Math.trunc(a / b) for b > 0
Trunc(a, b) == IF a >= 0 THEN a \div b ELSE -((-a) \div b)
\* Math.trunc of a number, as `>>> 0` and decodePvToInt take it
IntPart(v) == IF v.e >= 0 THEN v.m * Pow(10, v.e) ELSE Trunc(v.m, Pow(10, -v.e))
\* Math.trunc(value / step) for a step that is not 0
Quot(v, step) ==
  LET d == v.e - step.e
  IN IF d >= 0 THEN Trunc(v.m * Pow(10, d), step.m) ELSE Trunc(v.m, step.m * Pow(10, -d))
\* parseInt(hex, 16) of a string of hex digits
RECURSIVE HexValue(_)
HexValue(hex) ==
  IF hex = << >> THEN 0 ELSE HexValue(SubSeq(hex, 1, Len(hex) - 1)) * 256 + hex[Len(hex)]

convertEndian(value) == [k \in 1..Len(value) |-> value[Len(value) + 1 - k]]

\* parseSignedHex(hex, bytes) for bytes <= 3: the low `bytes` bytes read as a
\* two's-complement number; the empty string parses to NaN and the shifts give 0
Parser_parseSignedHex(hex, bytes) ==
  LET num == HexValue(hex) % Pow(256, bytes)
  IN IF bytes = 0 THEN 0
     ELSE IF num >= Pow(256, bytes) \div 2 THEN num - Pow(256, bytes) ELSE num

\* toSignedHex(num, bytes) for bytes <= 3: the last 2 * bytes hex digits of the
\* 32-bit two's complement of num; nothing checks that num fits
Parser_toSignedHex(num, bytes) ==
  [k \in 1..bytes |-> ((num % Pow(256, bytes)) \div Pow(256, bytes - k)) % 256]

\* Variant of getStepValueCoefficient that clamps the index into the upper half of the table
getStepValueCoefficientClamped(index) == <<0, 1, 2, 3, 4, 5, 6, 7>>[IF index > 7 THEN 8 ELSE index + 1]

\* getStepValueCoefficient(index): the table entry, as its power of ten
getStepValueCoefficient(index) == <<0, 1, 2, 3, 4, 5, 6, 7, -8, -7, -6, -5, -4, -3, -2, -1>>[index + 1]

decodeStepValueThrows(step) == step < 0 \/ step > 255
\* decodeStepValue(step) = base * coefficient; it is 0 exactly when base is 0
decodeStepValue(step) == [m |-> step % 16, e |-> getStepValueCoefficient(step \div 16)]

\* decodePv(pv, md)
decodePv(pv, md) ==
  LET swapped == convertEndian(pv)
      base == Parser_parseSignedHex(swapped, Len(swapped))
      step == decodeStepValue(md.st)
  IN IF step.m = 0 THEN [m |-> base, e |-> 0] ELSE [m |-> base * step.m, e |-> step.e]

\* encodePv(value, md); md.mx is given by the number of its bytes
Parser_encodePv(value, md) ==
  LET step == decodeStepValue(md.st)
      pvNumber == IF step.m = 0 THEN IntPart(value) ELSE Quot(value, step)
  IN convertEndian(Parser_toSignedHex(pvNumber, md.mx))

\* utils/dsiotQuery.ts on nested trees ----------------------------------------------------
\* A node is a branch [pn, pch] or a leaf [pn, pv, md] (md may be missing); pch
\* is the sequence of the children; pv is a hex string; md.mx is given by the
\* number of its bytes.  A path is the sequence of its segments.
STATUS == "/dsiot/edge/adr_0100.dgc_status"

\* responsesData is there and has a 'responses' property
HasResponses(data) == data # Undefined /\ "responses" \in DOMAIN data

\* the first loop of the walkers: the children of the last response of frame
\* fr, and the responses array itself when no response has that frame
FrameRoot(data, fr) ==
  LET hits == {k \in 1..Len(data.responses) : data.responses[k].fr = fr}
  IN IF hits = {} THEN data.responses
     ELSE data.responses[CHOOSE k \in hits : \A j \in hits : j <= k].pc.pch

\* the second loop of the walkers from segment i on, with the branches entered
\* so far: a segment that names a branch is entered; the last segment returns a
\* leaf of that name that has a pv (and an md, when needMd); a segment that
\* matches nothing is passed over and the walk goes on with the next segment at
\* the same level
RECURSIVE Walk(_, _, _, _, _)
Walk(cur, keys, i, chain, needMd) ==
  IF i > Len(keys) THEN [found |-> FALSE]
  ELSE LET Stops(k) == /\ "pn" \in DOMAIN cur[k] /\ cur[k].pn = keys[i]
                       /\ \/ "pch" \in DOMAIN cur[k]
                          \/ /\ "pv" \in DOMAIN cur[k] /\ (needMd => "md" \in DOMAIN cur[k])
                             /\ i = Len(keys)
           hits == {k \in 1..Len(cur) : Stops(k)}
       IN IF hits = {} THEN Walk(cur, keys, i + 1, chain, needMd)
          ELSE LET el == cur[CHOOSE k \in hits : \A j \in hits : k <= j]
               IN IF "pch" \in DOMAIN el
                  THEN Walk(el.pch, keys, i + 1, Append(chain, keys[i]), needMd)
                  ELSE [found |-> TRUE, leaf |-> el, chain |-> chain]

\* DsiotQuery.extractValueString
Query_extractValueString(data, fr, path) ==
  IF ~HasResponses(data) THEN Undefined
  ELSE LET w == Walk(FrameRoot(data, fr), path, 1, << >>, FALSE)
       IN IF w.found THEN Some(w.leaf.pv) ELSE Undefined

\* DsiotQuery.extractObject (behind extractMinMax, which decodes md.mi and md.mx
\* of the object returned): the walk of the other readers, except that a leaf
\* of the segment's name is returned at whatever segment it is met
RECURSIVE WalkObject(_, _, _)
WalkObject(cur, keys, i) ==
  IF i > Len(keys) THEN [found |-> FALSE]
  ELSE LET Stops(k) == /\ "pn" \in DOMAIN cur[k] /\ cur[k].pn = keys[i]
                       /\ ("pch" \in DOMAIN cur[k] \/ "pv" \in DOMAIN cur[k])
           hits == {k \in 1..Len(cur) : Stops(k)}
       IN IF hits = {} THEN WalkObject(cur, keys, i + 1)
          ELSE LET el == cur[CHOOSE k \in hits : \A j \in hits : k <= j]
               IN IF "pch" \in DOMAIN el
                  THEN WalkObject(el.pch, keys, i + 1)
                  ELSE [found |-> TRUE, leaf |-> el]
extractObjectThrows(data, fr, path) ==
  ~HasResponses(data) \/ ~WalkObject(FrameRoot(data, fr), path, 1).found
extractObject(data, fr, path) == WalkObject(FrameRoot(data, fr), path, 1).leaf

\* DsiotQuery.extractValueNumber throws without responses and without a leaf
extractValueNumberThrows(data, fr, path) ==
  ~HasResponses(data) \/ ~Walk(FrameRoot(data, fr), path, 1, << >>, TRUE).found
extractValueNumber(data, fr, path) == Walk(FrameRoot(data, fr), path, 1, << >>, TRUE).leaf

\* DsiotQuery.extractValueInt / extractValueFloat
Query_extractValueInt(data, fr, path) ==
  LET l == extractValueNumber(data, fr, path) IN IntPart(decodePv(l.pv, l.md))
extractValueFloat(data, fr, path) ==
  LET l == extractValueNumber(data, fr, path) IN decodePv(l.pv, l.md)

\* the fragment DsiotQuery.encodePv builds: the branches it entered, then the leaf
RECURSIVE Fragment(_, _)
Fragment(chain, leaf) ==
  IF chain = << >> THEN <<leaf>>
  ELSE <<[pn |-> Head(chain), pch |-> Fragment(Tail(chain), leaf)]>>

\* DsiotQuery.encodePvInt / encodePvFloat throw where extractValueNumber does
Query_encodePv(data, fr, path, pv, int) ==
  LET w == Walk(FrameRoot(data, fr), path, 1, << >>, TRUE)
      epv == Parser_encodePv(IF int THEN [m |-> IntPart(pv), e |-> 0] ELSE pv, w.leaf.md)
  IN Fragment(w.chain, [pn |-> path[Len(path)], pv |-> epv])

\* Variant of Query_combineObject that appends every child of src
combineObjectAppending(dst, src) == dst \o src

\* DsiotQuery.combineObject: every child of src, in order, overwrites the pv of
\* the first child of dst with its name, or is merged into that child's
\* children, or is appended
RECURSIVE Query_combineObject(_, _)
Query_combineObject(dst, src) ==
  IF src = << >> THEN dst
  ELSE LET srcObj == Head(src)
           hits == {j \in 1..Len(dst) : dst[j].pn = srcObj.pn}
           first == CHOOSE j \in hits : \A k \in hits : j <= k
           merged ==
             IF hits = {} THEN Append(dst, srcObj)
             ELSE [dst EXCEPT ![first] =
                     IF "pv" \in DOMAIN srcObj
                     THEN ("pv" :> srcObj.pv) @@ dst[first]
                     ELSE [dst[first] EXCEPT !.pch = Query_combineObject(dst[first].pch, srcObj.pch)]]
       IN Query_combineObject(merged, Tail(src))

\* TargetTemperaturePnMap (AC)
TargetTemperaturePnMap(mode) ==
  CASE mode = 1 -> Some("p_03")
    [] mode = 2 -> Some("p_02")
    [] mode = 3 -> Some("p_1F")
    [] OTHER -> Undefined

\* Variant of setTargetTemperature without the operation sound
setTargetTemperatureOnly(data, mode, temperature) ==
  IF TargetTemperaturePnMap(mode) = Undefined THEN Undefined
  ELSE Some(Query_encodePv(data, STATUS, <<"e_1002", "e_3001", Get(TargetTemperaturePnMap(mode))>>,
                           temperature, FALSE))

\* DaikinDeviceACAttributes.setTargetTemperature
setTargetTemperature(data, mode, temperature) ==
  IF TargetTemperaturePnMap(mode) = Undefined THEN Undefined
  ELSE Some(Query_combineObject(
              Query_encodePv(data, STATUS, <<"e_1002", "e_3003", "p_2D">>,
                             [m |-> RemoconSoundOnly, e |-> 0], TRUE),
              Query_encodePv(data, STATUS, <<"e_1002", "e_3001", Get(TargetTemperaturePnMap(mode))>>,
                             temperature, FALSE)))

\* State ------------------------------------------------------------------------------
VARIABLES
  family,            \* which engine class the factory has instantiated
  dev,               \* the physical device's tree
  transportUp,       \* the device is reachable and answers with its well-formed tree
  currentState,      \* this.currentState
  lastQueryResponse, \* this.lastQueryResponse
  name,              \* this.name
  task,              \* the async invocations: 0 is discoverDevices' thread for
                     \* this device, 1..MaxInv are timer ticks and handlers
  nextId,            \* next fresh invocation id of a recorded run
  lockHolder,        \* refreshLock: the job whose body is running, if any
  lockQueue,         \* refreshLock: the jobs waiting to enter
  lockTimedOut,      \* invocations whose acquire() timed out in the queue
  attributes,        \* the endpoint's attribute values (the shadow attributes)
  notif,             \* attributes with a pending locally originated notification
  refreshInterval,   \* this.refreshInterval
  timerActive,       \* whether the interval timer behind it is still scheduled
  destroyedRunning,  \* destroy() has been called while the timer was armed
  envEvents,         \* number of environment events of a recorded run so far
  log,               \* ordered log of the transport calls, as a mock transport sees them
  recording,         \* TRUE: fresh ids and a call log (finite runs);
                     \* FALSE: ids are reused and nothing is logged (endless runs)
  fnCall,            \* a call of one of the pure functions: its name and arguments
  fnResult,          \* what that call has returned or thrown so far
  discovery          \* discoverDevices: the addresses, the loop's position, the
                     \* engines constructed and the platform's device list

vars == <<family, dev, transportUp, currentState, lastQueryResponse, name, task, nextId,
          lockHolder, lockQueue, lockTimedOut, attributes, notif, refreshInterval,
          timerActive, destroyedRunning, envEvents, log, recording, fnCall, fnResult, discovery>>

envVars == <<family, dev, transportUp, envEvents, recording, fnCall, fnResult, discovery>>
engineVars == <<currentState, lastQueryResponse, name>>
lockVars == <<lockHolder, lockQueue, lockTimedOut>>
timerVars == <<refreshInterval, timerActive>>

Ids == 0..MaxInv
NewTask == [kind |-> "none", pc |-> "new", err |-> "", arg |-> "", old |-> "", todo |-> << >>]
Finished(t) == t.pc \in {"new", "done", "failed"}

InitWith(rec) ==
  /\ family \in Families
  /\ \E power \in BOOLEAN : dev = DeviceTree(family, power, InitialMode(family))
  /\ transportUp \in BOOLEAN
  /\ currentState = Undefined
  /\ lastQueryResponse = Undefined
  /\ name = Some("")
  /\ task = [i \in Ids |-> NewTask]
  /\ nextId = 1
  /\ lockHolder = << >>
  /\ lockQueue = << >>
  /\ lockTimedOut = {}
  /\ attributes = Undefined
  /\ notif = {}
  /\ refreshInterval = Undefined
  /\ timerActive = FALSE
  /\ destroyedRunning = FALSE
  /\ envEvents = 0
  /\ log = << >>
  /\ recording = rec
  /\ fnCall = Undefined
  /\ fnResult = Undefined
  /\ discovery = Undefined

Init == InitWith(TRUE)

\* Helpers of the actions -----------------------------------------------------------
Entry(op, i, patch) == [op |-> op, by |-> i, patch |-> patch]
Logged(op, i, patch) == IF recording THEN Append(log, Entry(op, i, patch)) ELSE log

LockJobs == {lockHolder[k].by : k \in 1..Len(lockHolder)} \cup {lockQueue[k].by : k \in 1..Len(lockQueue)}
FreeSlot(i) == Finished(task[i]) /\ i \notin LockJobs

\* A new invocation gets the next id; when ids are reused, the lowest free one
\* from `lowest` on (slot 1 is kept for timer ticks)
Alloc(i, lowest) ==
  IF recording
  THEN i = nextId /\ nextId <= MaxInv /\ nextId' = nextId + 1
  ELSE /\ i \in lowest..MaxInv /\ FreeSlot(i)
       /\ \A j \in lowest..(i - 1) : ~FreeSlot(j)
       /\ nextId' = nextId

\* createEndpoint() has run: the handlers are subscribed and the device is in
\* the platform's device list
EndpointsCreated == task[0].kind = "register"

\* updateAttribute() raises a locally originated notification for every handled
\* attribute whose value it changes
Notified(newAttrs) == {a \in HandledAttrs(family) : Get(attributes)[a] # newAttrs[a]}

\* registerWithPlatform arms the timer once its awaited refresh has resolved
Arms(i) == i = 0 /\ refreshInterval = Undefined
TimerAfter(i) ==
  /\ refreshInterval' = IF Arms(i) THEN Some("interval") ELSE refreshInterval
  /\ timerActive' = IF Arms(i) THEN TRUE ELSE timerActive

\* Lifecycle (module.ts discoverDevices / onShutdown) --------------------------------
\* connect(): fetchDeviceStatus issues its query
Connect ==
  /\ task[0].pc = "new"
  /\ task' = [task EXCEPT ![0] = [NewTask EXCEPT !.kind = "connect", !.pc = "query"]]
  /\ log' = Logged("query", 0, NoPatch)
  /\ UNCHANGED <<envVars, engineVars, nextId, lockVars, attributes, notif, timerVars, destroyedRunning>>

\* fetchDeviceStatus, once the answer has passed its checks: tree and state are
\* assigned together
fetchAssigns(r) ==
  /\ lastQueryResponse' = Some(r.tree)
  /\ currentState' = Some(getCurrentStatus(family, r.tree))

\* connect(), from the answer on: a failed fetch rejects connect (discoverDevices
\* logs it and drops the device), otherwise the name is taken from the new state
ConnectResponse ==
  /\ task[0].kind = "connect" /\ task[0].pc = "query"
  /\ \E r \in Responses(dev, transportUp) :
       IF fetchError(family, r) # ""
       THEN /\ task' = [task EXCEPT ![0].pc = "failed", ![0].err = fetchError(family, r)]
            /\ UNCHANGED engineVars
       ELSE /\ fetchAssigns(r)
            /\ name' = Get(currentState').deviceName
            /\ task' = [task EXCEPT ![0].pc = "done"]
  /\ UNCHANGED <<envVars, nextId, lockVars, attributes, notif, timerVars, destroyedRunning, log>>

\* createEndpoint(), devices.push and registerWithPlatform() up to the query of
\* its refresh.  The clusters are created with the values of the current state;
\* the AC engine then forgets its state to force the update.
RegisterWithPlatform ==
  /\ task[0].kind = "connect" /\ task[0].pc = "done"
  /\ currentState # Undefined
  /\ attributes' = Some(CreateAttrs(family, Get(currentState)))
  /\ currentState' = IF family = "AC" THEN Undefined ELSE currentState
  /\ task' = [task EXCEPT ![0] = [NewTask EXCEPT !.kind = "register", !.pc = "query"]]
  /\ log' = Logged("query", 0, NoPatch)
  /\ UNCHANGED <<envVars, lastQueryResponse, name, nextId, lockVars, notif, timerVars, destroyedRunning>>

\* Variant of destroy that forgets the handle without clearInterval
destroyKeepsTimer ==
  /\ refreshInterval' = Undefined
  /\ timerActive' = timerActive

\* destroy(): clearInterval and forget the handle, if there is one
destroy ==
  /\ refreshInterval' = Undefined
  /\ timerActive' = IF refreshInterval # Undefined THEN FALSE ELSE timerActive

\* onShutdown() calls destroy() of every device in the list
Destroy ==
  /\ EndpointsCreated
  /\ destroyedRunning' = (destroyedRunning \/ timerActive)
  /\ destroy
  /\ UNCHANGED <<envVars, engineVars, task, nextId, lockVars, attributes, notif, log>>

\* Refresh ------------------------------------------------------------------------------
\* whether restoreState() awaits refreshLock.acquire(): the AC engine does,
\* the AP engine calls it without await or return
AwaitsLock == family = "AC"

\* The body passed to acquire(): every updateAttribute() call is made from the
\* state object read when the body starts
RestoreBody(s) ==
  /\ attributes' = Some(RestoreAttrs(family, s))
  /\ notif' = notif \cup Notified(RestoreAttrs(family, s))

\* restoreState() called by invocation i while this.currentState is s: the body
\* starts at once when the lock is free, otherwise the job queues
restoreState(i, s) ==
  IF lockHolder = << >>
  THEN /\ lockHolder' = <<[by |-> i]>>
       /\ lockQueue' = lockQueue
       /\ RestoreBody(s)
  ELSE /\ lockQueue' = Append(lockQueue, [by |-> i])
       /\ UNCHANGED <<lockHolder, attributes, notif>>

\* The setInterval callback: refreshDeviceStatus() issues its query
TimerTick ==
  /\ timerActive
  /\ \E i \in 1..MaxInv :
       /\ Alloc(i, 1)
       /\ task' = [task EXCEPT ![i] = [NewTask EXCEPT !.kind = "tick", !.pc = "query"]]
       /\ log' = Logged("query", i, NoPatch)
  /\ UNCHANGED <<envVars, engineVars, lockVars, attributes, notif, timerVars, destroyedRunning>>

\* Variant of fetchThrows in which a failed refresh stops the timer
fetchThrowsFatal(i, e) ==
  /\ task' = [task EXCEPT ![i].pc = "failed", ![i].err = e]
  /\ refreshInterval' = Undefined
  /\ timerActive' = FALSE
  /\ UNCHANGED <<currentState, lastQueryResponse, lockHolder, lockQueue, attributes, notif>>

\* fetchDeviceStatus() throws inside refreshDeviceStatus(): the invocation ends
\* with the error, the engine's fields, the lock and the timer are as before
fetchThrows(i, e) ==
  /\ task' = [task EXCEPT ![i].pc = "failed", ![i].err = e]
  /\ UNCHANGED <<currentState, lastQueryResponse, lockHolder, lockQueue, attributes, notif, timerVars>>

\* refreshDeviceStatus() from the answer of its query on: fetchDeviceStatus
\* throws or assigns, then restoreState() is called.  The AP engine's
\* refreshDeviceStatus resolves right after that call, the AC engine's waits
\* for the lock and the body.
QueryReturns(i, r) ==
  /\ IF fetchError(family, r) # ""
     THEN fetchThrows(i, fetchError(family, r))
     ELSE /\ fetchAssigns(r)
          /\ restoreState(i, getCurrentStatus(family, r.tree))
          /\ IF AwaitsLock
             THEN /\ task' = [task EXCEPT ![i].pc = "lock"]
                  /\ UNCHANGED timerVars
             ELSE /\ task' = [task EXCEPT ![i].pc = "done"]
                  /\ TimerAfter(i)
  /\ UNCHANGED <<envVars, name, nextId, lockTimedOut, destroyedRunning, log>>

\* the device answers the query and the answer is received in one step
QueryResponse(i) ==
  /\ task[i].pc = "query" /\ task[i].kind # "connect"
  /\ \E r \in Responses(dev, transportUp) : QueryReturns(i, r)

\* The body's Promise.all resolves: the lock is released, an awaiting owner
\* continues, and the first waiting job starts its body
PublishDone ==
  /\ lockHolder # << >>
  /\ LET i == lockHolder[1].by
     IN IF AwaitsLock
        THEN task' = [task EXCEPT ![i].pc = "done"] /\ TimerAfter(i)
        ELSE UNCHANGED <<task, timerVars>>
  /\ IF lockQueue = << >>
     THEN lockHolder' = << >> /\ UNCHANGED <<lockQueue, attributes, notif>>
     ELSE /\ lockHolder' = <<Head(lockQueue)>>
          /\ lockQueue' = Tail(lockQueue)
          /\ RestoreBody(Get(currentState))
  /\ UNCHANGED <<envVars, engineVars, nextId, lockTimedOut, destroyedRunning, log>>

\* async-lock's timeout (4 s) of the k-th waiting job: the job leaves the queue,
\* its body never runs, and acquire()'s promise rejects.  Only an awaiting
\* caller receives the rejection.
LockTimeout(k) ==
  /\ k \in 1..Len(lockQueue)
  /\ LET i == lockQueue[k].by
     IN /\ lockQueue' = SubSeq(lockQueue, 1, k - 1) \o SubSeq(lockQueue, k + 1, Len(lockQueue))
        /\ lockTimedOut' = IF recording THEN lockTimedOut \cup {i} ELSE lockTimedOut
        /\ task' = IF AwaitsLock
                   THEN [task EXCEPT ![i].pc = "failed", ![i].err = "locktimeout"]
                   ELSE task
  /\ UNCHANGED <<envVars, engineVars, nextId, lockHolder, attributes, notif, timerVars,
                 destroyedRunning, log>>

\* Commands ----------------------------------------------------------------------------
\* A handler builds the patch of a request against the last-known tree
\* (encodePv throws when a leaf of the patch is not in it)
BuildThrows(patch) == \E l \in DOMAIN patch : encodePvThrows(Get(lastQueryResponse), l)

\* Variant of OnOffRequests that sends the operation sound in a request of its own
OnOffRequestsSplit(f, power) ==
  <<Leaf(POWER, IF power THEN "01" ELSE "00"), encodePv(SOUND, RemoconSoundOnly)>>

\* The write requests of the handlers, in the order they are sent
OnOffRequests(f, power) == <<setPowerStatus(f, power)>>

ModeRequests(mode) == <<setOperationModeAndHumidify(mode, Get(currentState).humidifyLevel)>>

\* systemMode handler (AC) after its own fetch: power off for Off while on;
\* nothing for a mode without a Daikin counterpart; otherwise the mode request,
\* preceded by a power-on request of its own when the device is off
SystemModeRequests(power, newValue) ==
  IF power /\ newValue = "Off" THEN <<setPowerStatus("AC", FALSE)>>
  ELSE IF mapMatterModeToDaikin(newValue) = Undefined THEN << >>
  ELSE (IF ~power THEN <<setPowerStatus("AC", TRUE)>> ELSE << >>)
       \o <<setOperationMode(Get(mapMatterModeToDaikin(newValue)))>>

\* sendCommand() of the first request of reqs by invocation i
Send(i, kind, arg, old, reqs) ==
  IF BuildThrows(Head(reqs))
  THEN /\ task' = [task EXCEPT ![i] = [NewTask EXCEPT !.kind = kind, !.pc = "failed", !.err = "encode",
                                                      !.arg = arg, !.old = old]]
       /\ log' = log
  ELSE /\ task' = [task EXCEPT ![i] = [NewTask EXCEPT !.kind = kind, !.pc = "send", !.arg = arg,
                                                      !.old = old, !.todo = reqs]]
       /\ log' = Logged("send", i, Head(reqs))

\* 'on' / 'off' command handlers
CommandOnOff(power) ==
  /\ EndpointsCreated
  /\ \E i \in 1..MaxInv :
       /\ Alloc(i, 2)
       /\ Send(i, IF power THEN "on" ELSE "off", "", "", OnOffRequests(family, power))
  /\ UNCHANGED <<envVars, engineVars, lockVars, attributes, notif, timerVars, destroyedRunning>>

\* Variant of Handler without the check of context.offline
HandlerIgnoringOffline(attr, newValue, oldValue, offline) ==
  \E i \in 1..MaxInv :
    /\ Alloc(i, 2)
    /\ IF attr = "systemMode"
       THEN /\ task' = [task EXCEPT ![i] = [NewTask EXCEPT !.kind = "systemMode", !.pc = "prefetch",
                                                           !.arg = newValue, !.old = oldValue]]
            /\ log' = Logged("query", i, NoPatch)
       ELSE Send(i, "currentMode", "", "", ModeRequests(newValue))

\* A subscribed attribute handler called with (newValue, oldValue, context):
\* nothing when context.offline is true; the systemMode handler (AC) fetches
\* first, the currentMode handler (AP) sends at once
Handler(attr, newValue, oldValue, offline) ==
  IF offline
  THEN UNCHANGED <<task, nextId, log>>
  ELSE \E i \in 1..MaxInv :
         /\ Alloc(i, 2)
         /\ IF attr = "systemMode"
            THEN /\ task' = [task EXCEPT ![i] = [NewTask EXCEPT !.kind = "systemMode", !.pc = "prefetch",
                                                                !.arg = newValue, !.old = oldValue]]
                 /\ log' = Logged("query", i, NoPatch)
            ELSE Send(i, "currentMode", "", "", ModeRequests(newValue))

\* A controller writes an attribute: the value changes and the handler is
\* called with context.offline = false
AttributeWrite(attr, v) ==
  /\ EndpointsCreated
  /\ attr \in HandledAttrs(family)
  /\ v \in AttrValues(family, attr)
  /\ Get(attributes)[attr] # v
  /\ attributes' = Some([Get(attributes) EXCEPT ![attr] = v])
  /\ Handler(attr, v, Get(attributes)[attr], FALSE)
  /\ UNCHANGED <<envVars, engineVars, lockVars, notif, timerVars, destroyedRunning>>

\* The notification of one of the engine's own updateAttribute() writes reaches
\* the handler, with context.offline = true
LocalNotification(attr) ==
  /\ attr \in notif
  /\ notif' = notif \ {attr}
  /\ Handler(attr, Get(attributes)[attr], Get(attributes)[attr], TRUE)
  /\ UNCHANGED <<envVars, engineVars, lockVars, attributes, timerVars, destroyedRunning>>

\* systemMode handler from the answer of its fetchDeviceStatus() on
PrefetchResponse(i) ==
  /\ task[i].pc = "prefetch"
  /\ \E r \in Responses(dev, transportUp) :
       IF fetchError(family, r) # ""
       THEN /\ task' = [task EXCEPT ![i].pc = "failed", ![i].err = fetchError(family, r)]
            /\ UNCHANGED <<currentState, lastQueryResponse, attributes, notif, log>>
       ELSE /\ fetchAssigns(r)
            /\ LET reqs == SystemModeRequests(getCurrentStatus(family, r.tree).power, task[i].arg)
               IN IF reqs = << >>
                  THEN \* updateAttribute(systemMode, oldValue)
                       /\ attributes' = Some([Get(attributes) EXCEPT !.systemMode = task[i].old])
                       /\ notif' = notif \cup Notified(Get(attributes'))
                       /\ task' = [task EXCEPT ![i].pc = "done"]
                       /\ log' = log
                  ELSE /\ task' = [task EXCEPT ![i].pc = "send", ![i].todo = reqs]
                       /\ log' = Logged("send", i, Head(reqs))
                       /\ UNCHANGED <<attributes, notif>>
  /\ UNCHANGED <<envVars, name, nextId, lockVars, timerVars, destroyedRunning>>

\* Variant of SendResponse that also merges the request into the last-known tree
SendResponseMerging(i) ==
  /\ task[i].pc = "send"
  /\ IF transportUp
     THEN /\ dev' = ApplyPatch(dev, Head(task[i].todo))
          /\ lastQueryResponse' = Some(ApplyPatch(Get(lastQueryResponse), Head(task[i].todo)))
          /\ IF Len(task[i].todo) > 1
             THEN /\ task' = [task EXCEPT ![i].todo = Tail(task[i].todo)]
                  /\ log' = Logged("send", i, task[i].todo[2])
             ELSE /\ task' = [task EXCEPT ![i].pc = "query", ![i].todo = << >>]
                  /\ log' = Logged("query", i, NoPatch)
     ELSE /\ task' = [task EXCEPT ![i].pc = "failed", ![i].err = "send"]
          /\ UNCHANGED <<dev, log, lastQueryResponse>>
  /\ UNCHANGED <<family, transportUp, envEvents, recording, fnCall, fnResult, discovery,
                 currentState, name, nextId, lockVars, attributes, notif, timerVars, destroyedRunning>>

\* sendCommand() returns: the device has applied the request and answered 200,
\* or the call throws and the handler ends there.  After the last request the
\* handler calls refreshDeviceStatus(), which issues its query.
SendResponse(i) ==
  /\ task[i].pc = "send"
  /\ IF transportUp
     THEN /\ dev' = ApplyPatch(dev, Head(task[i].todo))
          /\ IF Len(task[i].todo) > 1
             THEN /\ task' = [task EXCEPT ![i].todo = Tail(task[i].todo)]
                  /\ log' = Logged("send", i, task[i].todo[2])
             ELSE /\ task' = [task EXCEPT ![i].pc = "query", ![i].todo = << >>]
                  /\ log' = Logged("query", i, NoPatch)
     ELSE /\ task' = [task EXCEPT ![i].pc = "failed", ![i].err = "send"]
          /\ UNCHANGED <<dev, log>>
  /\ UNCHANGED <<family, transportUp, envEvents, recording, fnCall, fnResult, discovery,
                 engineVars, nextId, lockVars, attributes, notif, timerVars, destroyedRunning>>

\* Environment -------------------------------------------------------------------------
\* the device becomes unreachable or unwell, or recovers
EnvEvent ==
  /\ recording => envEvents < MaxEnv
  /\ envEvents' = IF recording THEN envEvents + 1 ELSE envEvents

TransportChange ==
  /\ EnvEvent
  /\ transportUp' = ~transportUp
  /\ UNCHANGED <<family, dev, recording, fnCall, fnResult, discovery, engineVars, task, nextId, lockVars, attributes, notif,
                 timerVars, destroyedRunning, log>>

\* somebody switches the device with its own remote control
ExternalChange ==
  /\ EnvEvent
  /\ dev' = [dev EXCEPT ![POWER] = IF dev[POWER] = "01" THEN "00" ELSE "01"]
  /\ UNCHANGED <<family, transportUp, recording, fnCall, fnResult, discovery, engineVars, task, nextId, lockVars, attributes,
                 notif, timerVars, destroyedRunning, log>>

Next ==
  \/ Connect
  \/ ConnectResponse
  \/ RegisterWithPlatform
  \/ Destroy
  \/ TimerTick
  \/ \E i \in Ids : QueryResponse(i)
  \/ PublishDone
  \/ \E k \in 1..MaxInv : LockTimeout(k)
  \/ \E power \in BOOLEAN : CommandOnOff(power)
  \/ \E attr \in {"systemMode", "currentMode"} : \E v \in AttrValues(family, attr) : AttributeWrite(attr, v)
  \/ \E attr \in {"systemMode", "currentMode"} : LocalNotification(attr)
  \/ \E i \in Ids : PrefetchResponse(i)
  \/ \E i \in Ids : SendResponse(i)
  \/ TransportChange
  \/ ExternalChange

Spec == Init /\ [][Next]_vars

\* Endless runs: the timer keeps firing while it is armed, every transport call
\* returns (the requests carry a 3 s timeout), and the attribute writes of a
\* republish settle
InitLive == InitWith(FALSE)

\* The endless runs are those of the timer and of the on/off commands
NextLive ==
  \/ Connect
  \/ ConnectResponse
  \/ RegisterWithPlatform
  \/ Destroy
  \/ TimerTick
  \/ \E i \in Ids : QueryResponse(i)
  \/ PublishDone
  \/ \E k \in 1..MaxInv : LockTimeout(k)
  \/ \E power \in BOOLEAN : CommandOnOff(power)
  \/ \E i \in Ids : SendResponse(i)
  \/ TransportChange
  \/ ExternalChange

Fairness ==
  /\ WF_vars(Connect)
  /\ WF_vars(ConnectResponse)
  /\ WF_vars(RegisterWithPlatform)
  /\ WF_vars(TimerTick)
  /\ \A i \in Ids : WF_vars(QueryResponse(i))
  /\ \A i \in Ids : WF_vars(SendResponse(i))
  /\ WF_vars(PublishDone)

LiveSpec == InitLive /\ [][NextLive]_vars /\ Fairness

\* Answers in flight ---------------------------------------------------------------------
\* The queries of refreshDeviceStatus() are not made under the lock, and an
\* answer travels for a while: the device answers with the tree it has then,
\* and the engine receives the answers in any order.
\* the device (or the failing transport) answers the query of invocation i
DeviceAnswers(i) ==
  /\ task[i].pc = "query" /\ task[i].kind # "connect"
  /\ \E r \in Responses(dev, transportUp) :
       task' = [task EXCEPT ![i].pc = "answered", ![i].todo = <<r>>]
  /\ UNCHANGED <<envVars, engineVars, nextId, lockVars, attributes, notif, timerVars,
                 destroyedRunning, log>>

\* the await of queryDevice() in fetchDeviceStatus() resumes with that answer
AnswerArrives(i) ==
  /\ task[i].pc = "answered"
  /\ QueryReturns(i, task[i].todo[1])

InFlightNext ==
  \/ Connect
  \/ ConnectResponse
  \/ RegisterWithPlatform
  \/ TimerTick
  \/ \E i \in Ids : DeviceAnswers(i)
  \/ \E i \in Ids : AnswerArrives(i)
  \/ PublishDone
  \/ \E power \in BOOLEAN : CommandOnOff(power)
  \/ \E i \in Ids : SendResponse(i)

InFlightSpec == Init /\ [][InFlightNext]_vars

\* Shutdown during registration ----------------------------------------------------------
\* The platform's onShutdown may arrive at any time after the device has been
\* pushed to the list; the platform remembers that it has run
RaceInit ==
  /\ family \in Families
  /\ \E power \in BOOLEAN : dev = DeviceTree(family, power, InitialMode(family))
  /\ transportUp \in BOOLEAN
  /\ currentState = Undefined /\ lastQueryResponse = Undefined /\ name = Some("")
  /\ task = [i \in Ids |-> NewTask] /\ nextId = 1
  /\ lockHolder = << >> /\ lockQueue = << >> /\ lockTimedOut = {}
  /\ attributes = Undefined /\ notif = {} /\ refreshInterval = Undefined
  /\ timerActive = FALSE /\ destroyedRunning = FALSE /\ envEvents = 0 /\ log = << >>
  /\ recording = TRUE
  /\ fnCall = Undefined /\ fnResult = Undefined
  /\ discovery = [shutdown |-> FALSE]

\* onShutdown(): destroy() of the device, which returns at once
PlatformShutdown ==
  /\ EndpointsCreated
  /\ destroyedRunning' = (destroyedRunning \/ timerActive)
  /\ destroy
  /\ discovery' = [shutdown |-> TRUE]
  /\ UNCHANGED <<family, dev, transportUp, envEvents, recording, fnCall, fnResult,
                 engineVars, task, nextId, lockVars, attributes, notif, log>>

RaceNext ==
  \/ Connect
  \/ ConnectResponse
  \/ RegisterWithPlatform
  \/ TimerTick
  \/ \E i \in Ids : QueryResponse(i)
  \/ PublishDone
  \/ PlatformShutdown
  \/ TransportChange

RaceSpec == RaceInit /\ [][RaceNext]_vars

\* Fan speed of the AC engine ------------------------------------------------------
\* The engine is an AC one and invocation ids are reused
FanInit == InitWith(FALSE) /\ family = "AC"

\* The fan modes a controller writes
FanModes == {"Auto", "Medium"}
\* speedMode of the fanMode handler: FanModeDaikinFanSpeedACMap[newValue] ?? Auto
speedModeOf(newValue) ==
  IF FanModeDaikinFanSpeedACMap(newValue) = Undefined THEN FanSpeedACAuto
  ELSE Get(FanModeDaikinFanSpeedACMap(newValue))

\* The request of the fanMode handler: the field is chosen by the mode of
\* this.currentState, the state of the last fetch
FanSpeedRequest(newValue) ==
  setFanSpeed(Get(currentState).mode, speedModeOf(newValue))

\* A controller writes fanMode of the main endpoint: the handler builds the
\* request from the engine's fields and sends it.  this.currentState!.mode
\* throws a TypeError while the state is undefined.
FanModeWrite(v) ==
  /\ EndpointsCreated
  /\ Get(attributes).fanMode # v
  /\ attributes' = Some([Get(attributes) EXCEPT !.fanMode = v])
  /\ \E i \in 1..MaxInv :
       /\ Alloc(i, 2)
       /\ IF currentState = Undefined
          THEN /\ task' = [task EXCEPT ![i] = [NewTask EXCEPT !.kind = "fanMode", !.pc = "failed",
                                                              !.err = "state", !.arg = v]]
               /\ log' = log
          ELSE Send(i, "fanMode", v, "", <<FanSpeedRequest(v)>>)
  /\ UNCHANGED <<envVars, engineVars, lockVars, notif, timerVars, destroyedRunning>>

\* somebody changes the operation mode with the device's own remote control
ExternalModeChange ==
  /\ EnvEvent
  /\ dev' = [dev EXCEPT ![MODE_AC] = encodePvInt(IF extractValueInt(dev, MODE_AC) = Heat THEN Cool ELSE Heat)]
  /\ UNCHANGED <<family, transportUp, recording, fnCall, fnResult, discovery, engineVars, task, nextId,
                 lockVars, attributes, notif, timerVars, destroyedRunning, log>>

FanNext ==
  \/ Connect
  \/ ConnectResponse
  \/ RegisterWithPlatform
  \/ \E i \in Ids : QueryResponse(i)
  \/ PublishDone
  \/ \E v \in FanModes : FanModeWrite(v)
  \/ \E v \in AttrValues("AC", "systemMode") : AttributeWrite("systemMode", v)
  \/ \E i \in Ids : PrefetchResponse(i)
  \/ \E i \in Ids : SendResponse(i)
  \/ ExternalModeChange

FanSpec == FanInit /\ [][FanNext]_vars

\* The humidify endpoint (AP) -------------------------------------------------------------
\* FanControl fanMode and percentSetting of EndpointHumidify, and the values a
\* controller writes to them
HumidifyAttrs == {"humidifyFanMode", "humidifyPercentSetting"}
HumidifyValues(attr) == IF attr = "humidifyFanMode" THEN {"Off", "Medium", "Auto"} ELSE {0, 66}

\* an air purifier in FlowAuto mode, with humidify fixed at Low or switched off
HumidifyTree(fixed) ==
  IF fixed
  THEN [DeviceTree("AP", TRUE, ModeAPFlowAuto) EXCEPT
          ![HUM_ON_AP] = "02", ![MODE_HUM_AP] = encodePvInt(ModeAPFlowAuto), ![HUM_LEVEL_AP] = "01"]
  ELSE DeviceTree("AP", TRUE, ModeAPFlowAuto)

HumidifyInit ==
  /\ family = "AP" /\ transportUp = TRUE
  /\ \E fixed \in BOOLEAN : dev = HumidifyTree(fixed)
  /\ currentState = Undefined /\ lastQueryResponse = Undefined /\ name = Some("")
  /\ task = [i \in Ids |-> NewTask] /\ nextId = 1
  /\ lockHolder = << >> /\ lockQueue = << >> /\ lockTimedOut = {}
  /\ attributes = Undefined /\ notif = {} /\ refreshInterval = Undefined
  /\ timerActive = FALSE /\ destroyedRunning = FALSE /\ envEvents = 0 /\ log = << >>
  /\ recording = TRUE
  /\ fnCall = Undefined /\ fnResult = Undefined /\ discovery = Undefined

\* updateAttribute(attr, back) by a handler that rejects the write of newValue
\* for invocation i: the attribute is set, a changed value raises a locally
\* originated notification, and the handler returns
HumidifyReject(i, attr, newValue, oldValue, back) ==
  /\ attributes' = Some([Get(attributes) EXCEPT ![attr] = back])
  /\ notif' = IF back # newValue THEN notif \cup {attr} ELSE notif
  /\ task' = [task EXCEPT ![i] = [NewTask EXCEPT !.kind = attr, !.pc = "done",
                                                 !.arg = newValue, !.old = oldValue]]
  /\ log' = log

\* the request of an accepted write: setFanSpeedAndHumidify with the fan speed
\* of the current state, then sendCommand and refreshDeviceStatus
HumidifyAccept(i, attr, newValue, oldValue, humidifyLevel) ==
  /\ attributes' = Some([Get(attributes) EXCEPT ![attr] = newValue])
  /\ notif' = notif
  /\ Send(i, attr, newValue, oldValue,
          <<setFanSpeedAndHumidify(Get(currentState).fanSpeed, humidifyLevel)>>)

\* The subscribed handlers of EndpointHumidify, called with (newValue,
\* oldValue, context) after the attribute has taken newValue
HumidifyHandler(i, attr, newValue, oldValue) ==
  LET forceAutoHumidify == DaikinModeAPForceAutoHumidifyMap(Get(currentState).mode)
  IN IF attr = "humidifyFanMode"
     THEN IF forceAutoHumidify
          THEN HumidifyReject(i, attr, newValue, oldValue, oldValue)
          ELSE IF FanModeDaikinHumidifyLevelAPMap(newValue) = Undefined
          THEN HumidifyReject(i, attr, newValue, oldValue, oldValue)
          ELSE HumidifyAccept(i, attr, newValue, oldValue, Get(FanModeDaikinHumidifyLevelAPMap(newValue)))
     ELSE IF forceAutoHumidify
          THEN HumidifyReject(i, attr, newValue, oldValue, 0)
          ELSE HumidifyAccept(i, attr, newValue, oldValue, getDaikinHumidifyLevelAPFromPercent(newValue))

\* A controller writes fanMode or percentSetting of the humidify endpoint
HumidifyWrite(attr, v) ==
  /\ EndpointsCreated
  /\ Get(attributes)[attr] # v
  /\ \E i \in 1..MaxInv :
       /\ Alloc(i, 2)
       /\ HumidifyHandler(i, attr, v, Get(attributes)[attr])
  /\ UNCHANGED <<envVars, engineVars, lockVars, timerVars, destroyedRunning>>

\* The notification of an updateAttribute() write reaches the handler with
\* context.offline = true, and the handler returns at once
HumidifyNotification(attr) ==
  /\ attr \in notif
  /\ notif' = notif \ {attr}
  /\ UNCHANGED <<envVars, engineVars, task, nextId, lockVars, attributes, timerVars,
                 destroyedRunning, log>>

HumidifyNext ==
  \/ Connect
  \/ ConnectResponse
  \/ RegisterWithPlatform
  \/ TimerTick
  \/ \E i \in Ids : QueryResponse(i)
  \/ PublishDone
  \/ \E k \in 1..MaxInv : LockTimeout(k)
  \/ \E v \in DevModes("AP") : AttributeWrite("currentMode", v)
  \/ LocalNotification("currentMode")
  \/ \E attr \in HumidifyAttrs : \E v \in HumidifyValues(attr) : HumidifyWrite(attr, v)
  \/ \E attr \in HumidifyAttrs : HumidifyNotification(attr)
  \/ \E i \in Ids : SendResponse(i)

HumSpec == HumidifyInit /\ [][HumidifyNext]_vars

\* Calls of the pure functions -----------------------------------------------------------
\* The engine of these runs has just been constructed and stays as it is
Constructed ==
  /\ family = "AC" /\ dev = DeviceTree("AC", FALSE, Heat) /\ transportUp = FALSE
  /\ currentState = Undefined /\ lastQueryResponse = Undefined /\ name = Some("")
  /\ task = [i \in Ids |-> NewTask] /\ nextId = 1
  /\ lockHolder = << >> /\ lockQueue = << >> /\ lockTimedOut = {}
  /\ attributes = Undefined /\ notif = {} /\ refreshInterval = Undefined
  /\ timerActive = FALSE /\ destroyedRunning = FALSE /\ envEvents = 0 /\ log = << >>
  /\ recording = TRUE

engineSide == <<family, dev, transportUp, currentState, lastQueryResponse, name, task, nextId,
                lockHolder, lockQueue, lockTimedOut, attributes, notif, refreshInterval,
                timerActive, destroyedRunning, envEvents, log, recording>>

\* step bytes of the calls: 0x00, 0x01, 0x02, 0x10, 0x11, 0xF1 (0.1), 0xF5 (0.5)
StepBytes == {0, 1, 2, 16, 17, 241, 245}

\* encodePv followed by decodePv with the same metadata
RoundTripCalls ==
  [op : {"roundtrip"}, value : [m : (-MaxMag)..MaxMag, e : {-1, 0}],
   md : [st : StepBytes, mx : 1..MaxBytes]]

\* decodeStepValue of a step byte, in and out of 0..255
StepCalls == [op : {"decodeStepValue"}, st : (-2)..257]

\* A response of an AC device: the status frame with the mode (Cool), the target
\* temperatures in steps of 0.5 (cooling: 24.0) and the operation sound, all
\* leaves with metadata, and the power, a leaf without
MdLeaf(pn, pv, st) == [pn |-> pn, pv |-> pv, md |-> [st |-> st, mx |-> 1]]
Fixture ==
  [responses |-> <<
     [fr |-> "/dsiot/edge.adp_i",
      pc |-> [pn |-> "adp_i", pch |-> <<[pn |-> "mac", pv |-> <<170, 187>>]>>]],
     [fr |-> STATUS,
      pc |-> [pn |-> "dgc_status", pch |-> <<
        [pn |-> "e_1002", pch |-> <<
           [pn |-> "e_3001", pch |-> <<MdLeaf("p_01", <<2>>, 0), MdLeaf("p_02", <<48>>, 245),
                                      MdLeaf("p_03", <<44>>, 245), MdLeaf("p_1F", <<50>>, 245)>>],
           [pn |-> "e_3003", pch |-> <<MdLeaf("p_2D", <<0>>, 0)>>],
           [pn |-> "e_A002", pch |-> <<[pn |-> "p_01", pv |-> <<1>>]>>]>>]>>]]>>]

\* responsesData of a call: the fixture, undefined, or a body without 'responses'
Data(sel) ==
  CASE sel = "fixture" -> Fixture
    [] sel = "undefined" -> Undefined
    [] OTHER -> [status |-> 200]

\* the paths of the calls: every path of up to MaxPath segments over these
\* names, and a full path behind a segment the tree does not have
Paths ==
  UNION {[1..n -> {"e_1002", "e_3001", "e_A002", "p_01", "p_02", "zz"}] : n \in 1..MaxPath}
  \cup {<<"zz", "e_1002", "e_3001", "p_02">>}
\* the paths of the fixture's leaves with metadata
MdPaths ==
  {<<"e_1002", "e_3001", l>> : l \in {"p_01", "p_02", "p_03", "p_1F"}} \cup {<<"e_1002", "e_3003", "p_2D">>}
\* 25.5 and 3
EncodeValues == {[m |-> 255, e |-> -1], [m |-> 3, e |-> 0]}

ExtractCalls ==
  [op : {"extractValueString", "extractValueInt", "extractValueFloat"},
   data : {"fixture", "undefined", "noresponses"}, fr : {STATUS, "/dsiot/edge.zz"}, path : Paths]

ObjectCalls ==
  [op : {"extractObject"}, data : {"fixture", "undefined"}, fr : {STATUS, "/dsiot/edge.zz"}, path : Paths]

EncodeCalls ==
  [op : {"encodePv"}, int : BOOLEAN, data : {"fixture", "undefined"},
   fr : {STATUS, "/dsiot/edge.zz"}, path : Paths, pv : EncodeValues]

\* combineObject of a single-leaf fragment into the frame's tree, and of two
\* single-leaf fragments for different leaves
CombineCalls ==
  {[op |-> "combineObject", dst |-> FrameRoot(Fixture, STATUS),
    src |-> Query_encodePv(Fixture, STATUS, p1, v, FALSE), paths |-> <<p1>>] :
     p1 \in MdPaths, v \in EncodeValues}
  \cup {[op |-> "combineObject", dst |-> Query_encodePv(Fixture, STATUS, pp[1], v, FALSE),
         src |-> Query_encodePv(Fixture, STATUS, pp[2], v, TRUE), paths |-> pp] :
          pp \in {qq \in MdPaths \X MdPaths : qq[1] # qq[2]}, v \in EncodeValues}

\* setTargetTemperature for every DaikinModeAC and 16.0 .. 32.0 in tenths
TemperatureCalls ==
  [op : {"setTargetTemperature"}, mode : {0, 1, 2, 3, 5, 8}, temperature : [m : 160..320, e : {-1}]]

\* the levels of each kind, lowest first
Levels(kind) ==
  CASE kind = "APFan" -> <<0, 1, 2, 4>>
    [] kind = "APHumidify" -> <<0, 1, 2, 3>>
    [] OTHER -> <<10, 11, 3, 4, 5, 6, 7>>

\* percent to level for 0..100, and level to percent to level for every level
PercentCalls == [op : {"fromPercent"}, kind : {"APFan", "APHumidify", "ACFan"}, percent : 0..100]
LevelCalls ==
  UNION {{[op |-> "toPercent", kind |-> kind, level |-> Levels(kind)[k]] : k \in 1..Len(Levels(kind))} :
           kind \in {"APFan", "APHumidify", "ACFan"}}

\* setOperationModeAndHumidify on an AP tree with any stored humidify switch,
\* level and modes; the modes are Auto, FixedFlow, FlowAuto, Eco, Pollen, Throat
InterlockCalls ==
  [op : {"setOperationModeAndHumidify"}, mode : 0..5, humidify : {0, 1, 2, 3, 100},
   on : {"00", "02"}, level : 1..3, stored : {0, 2, 5}]

\* setFanSpeedAndHumidify for the four speeds and every humidify level, on an
\* AP tree with any stored humidify switch and stored fan speeds
FanSpeedCalls ==
  [op : {"setFanSpeedAndHumidify"}, speed : {0, 1, 2, 4}, humidify : {0, 1, 2, 3, 100},
   on : {"00", "02"}, stored : {0, 4}]

\* The fanMode handler of the humidity endpoint (AC), for every mode of the
\* fetched state and every change of the attribute
HumidityCalls ==
  {c \in [op : {"humidityFanMode"}, mode : ModesAC, newValue : FanModesAll, oldValue : {"Off", "Low"}] :
     c.newValue # c.oldValue}

FnCalls ==
  HumidityCalls \cup FanSpeedCalls \cup ObjectCalls \cup RoundTripCalls \cup StepCalls \cup ExtractCalls \cup EncodeCalls \cup CombineCalls
  \cup TemperatureCalls \cup PercentCalls \cup LevelCalls \cup InterlockCalls

FnInit ==
  /\ Constructed
  /\ fnCall \in FnCalls
  /\ fnResult = Undefined
  /\ discovery = Undefined

Returns(v) == fnResult' = v /\ UNCHANGED <<fnCall, discovery, engineSide>>

Encode ==
  /\ fnCall.op = "roundtrip" /\ fnResult = Undefined
  /\ Returns([pv |-> Parser_encodePv(fnCall.value, fnCall.md)])

Decode ==
  /\ fnCall.op = "roundtrip" /\ fnResult # Undefined /\ "value" \notin DOMAIN fnResult
  /\ Returns([pv |-> fnResult.pv, value |-> decodePv(fnResult.pv, fnCall.md)])

StepValue ==
  /\ fnCall.op = "decodeStepValue" /\ fnResult = Undefined
  /\ Returns(IF decodeStepValueThrows(fnCall.st)
             THEN [error |-> "RangeError"]
             ELSE [value |-> decodeStepValue(fnCall.st)])

Extract ==
  /\ fnCall.op \in {"extractValueString", "extractValueInt", "extractValueFloat"}
  /\ fnResult = Undefined
  /\ LET data == Data(fnCall.data)
     IN Returns(IF fnCall.op = "extractValueString"
                THEN [value |-> Query_extractValueString(data, fnCall.fr, fnCall.path)]
                ELSE IF extractValueNumberThrows(data, fnCall.fr, fnCall.path)
                THEN [error |-> "Error"]
                ELSE IF fnCall.op = "extractValueInt"
                THEN [value |-> Some(Query_extractValueInt(data, fnCall.fr, fnCall.path))]
                ELSE [value |-> Some(extractValueFloat(data, fnCall.fr, fnCall.path))])

ExtractObject ==
  /\ fnCall.op = "extractObject" /\ fnResult = Undefined
  /\ LET data == Data(fnCall.data)
     IN Returns(IF extractObjectThrows(data, fnCall.fr, fnCall.path)
                THEN [error |-> "Error"]
                ELSE [value |-> Some(extractObject(data, fnCall.fr, fnCall.path))])

Inject ==
  /\ fnCall.op = "encodePv" /\ fnResult = Undefined
  /\ LET data == Data(fnCall.data)
     IN Returns(IF extractValueNumberThrows(data, fnCall.fr, fnCall.path)
                THEN [error |-> "Error"]
                ELSE [value |-> Query_encodePv(data, fnCall.fr, fnCall.path, fnCall.pv, fnCall.int)])

Combine ==
  /\ fnCall.op = "combineObject" /\ fnResult = Undefined
  /\ Returns([value |-> Query_combineObject(fnCall.dst, fnCall.src)])

SetTargetTemperature ==
  /\ fnCall.op = "setTargetTemperature" /\ fnResult = Undefined
  /\ Returns([value |-> setTargetTemperature(Fixture, fnCall.mode, fnCall.temperature)])

PercentToLevel ==
  /\ fnCall.op = "fromPercent" /\ fnResult = Undefined
  /\ Returns([level |-> FromPercent(fnCall.kind, fnCall.percent)])

LevelRoundTrip ==
  /\ fnCall.op = "toPercent" /\ fnResult = Undefined
  /\ Returns([percent |-> ToPercent(fnCall.kind, fnCall.level),
              level |-> FromPercent(fnCall.kind, ToPercent(fnCall.kind, fnCall.level))])

\* the handler builds the patch against the tree it last read
BuildModePatch ==
  /\ fnCall.op = "setOperationModeAndHumidify" /\ fnResult = Undefined
  /\ Returns([patch |-> setOperationModeAndHumidify(fnCall.mode, fnCall.humidify)])

\* the device applies the patch, and the next query is decoded
ApplyAndDecode ==
  /\ fnCall.op = "setOperationModeAndHumidify"
  /\ fnResult # Undefined /\ "state" \notin DOMAIN fnResult
  /\ LET tree == [DeviceTree("AP", TRUE, ModeAPFlowAuto) EXCEPT
                    ![HUM_ON_AP] = fnCall.on, ![HUM_LEVEL_AP] = encodePvInt(fnCall.level),
                    ![MODE_AP] = encodePvInt(fnCall.stored), ![MODE_HUM_AP] = encodePvInt(fnCall.stored)]
     IN Returns([patch |-> fnResult.patch,
                 state |-> getCurrentStatus("AP", ApplyPatch(tree, fnResult.patch))])

\* the patch of setFanSpeedAndHumidify, applied by the device and decoded from
\* the next query
FanSpeedRoundTrip ==
  /\ fnCall.op = "setFanSpeedAndHumidify" /\ fnResult = Undefined
  /\ LET tree == [DeviceTree("AP", TRUE, ModeAPFlowAuto) EXCEPT
                    ![HUM_ON_AP] = fnCall.on, ![FAN_AP] = encodeFanSpeed(fnCall.stored),
                    ![FAN_HUM_AP] = encodeFanSpeed(fnCall.stored)]
         patch == setFanSpeedAndHumidify(fnCall.speed, fnCall.humidify)
     IN Returns([patch |-> patch, state |-> getCurrentStatus("AP", ApplyPatch(tree, patch))])

\* The fanMode handler of EndpointHumidity once its fetchDeviceStatus() has
\* returned with the state in fnCall.mode: an undefined setting puts oldValue
\* back and returns, otherwise the command is sent; `back` is the fan mode the
\* next restoreState() computes from the setting
HumidityFanMode ==
  /\ fnCall.op = "humidityFanMode" /\ fnResult = Undefined
  /\ LET humiditySetting == getTargetHumidityFromFanMode(fnCall.mode, fnCall.newValue)
     IN Returns([setting |-> humiditySetting,
                 sent |-> humiditySetting # Undefined,
                 fanMode |-> IF humiditySetting = Undefined THEN fnCall.oldValue ELSE fnCall.newValue,
                 back |-> IF humiditySetting = Undefined THEN Undefined
                          ELSE Some(getFanModeFromTargetHumidity(fnCall.mode, humiditySetting))])

FnNext ==
  \/ HumidityFanMode
  \/ FanSpeedRoundTrip
  \/ ExtractObject
  \/ PercentToLevel
  \/ LevelRoundTrip
  \/ BuildModePatch
  \/ ApplyAndDecode
  \/ Encode
  \/ Decode
  \/ StepValue
  \/ Extract
  \/ Inject
  \/ Combine
  \/ SetTargetTemperature

FnSpec == FnInit /\ [][FnNext]_vars

\* Discovery ---------------------------------------------------------------------------
\* What sits at an address: an air conditioner, an air purifier, a device of
\* another family, a device whose answer has no type leaf, a device whose
\* answer has no 'responses', or nothing that answers with status 200
Kinds == {"RA", "1D", "XX", "notag", "nobody", "down"}

\* the answer to COMMAND_QUERY ('/dsiot/edge.dev_i?filter=pv')
ProbeBody(leaves) ==
  [responses |-> <<[fr |-> "/dsiot/edge.dev_i", pc |-> [pn |-> "dev_i", pch |-> leaves]]>>]
ProbeResponses(kind) ==
  CASE kind = "down" ->
         {[status |-> 0, body |-> [error |-> "timeout"]],
          [status |-> 500, body |-> ProbeBody(<<[pn |-> "type", pv |-> "RA"]>>)]}
    [] kind = "nobody" -> {[status |-> 200, body |-> [error |-> "busy"]]}
    [] kind = "notag" -> {[status |-> 200, body |-> ProbeBody(<<[pn |-> "name", pv |-> "Living"]>>)]}
    [] OTHER ->
         {[status |-> 200,
           body |-> ProbeBody(<<[pn |-> "name", pv |-> "Living"], [pn |-> "type", pv |-> kind]>>)]}

\* getDeviceType: undefined stands for its throw ('Unable to get device type'),
\* after a failed query or a response without the type leaf
getDeviceType(r) ==
  IF queryDeviceThrows(r) THEN Undefined
  ELSE Query_extractValueString(r.body, "/dsiot/edge.dev_i", <<"dev_i", "type">>)

\* Variant of daikinMatterFactory whose default case builds an air conditioner
daikinMatterFactoryDefaultAC(r) ==
  LET deviceType == getDeviceType(r)
  IN IF deviceType = Undefined THEN [threw |-> TRUE, engine |-> "none"]
     ELSE IF Get(deviceType) = "1D" THEN [threw |-> FALSE, engine |-> "AP"]
     ELSE [threw |-> FALSE, engine |-> "AC"]

\* daikinMatterFactory: the engine constructed for the answer of the probe, or a throw
daikinMatterFactory(r) ==
  LET deviceType == getDeviceType(r)
  IN IF deviceType = Undefined THEN [threw |-> TRUE, engine |-> "none"]
     ELSE IF Get(deviceType) = "RA" THEN [threw |-> FALSE, engine |-> "AC"]
     ELSE IF Get(deviceType) = "1D" THEN [threw |-> FALSE, engine |-> "AP"]
     ELSE [threw |-> TRUE, engine |-> "none"]

\* discoverDevices: the walk over daikinIPs.  ips is what sits at each address,
\* i the address of the current iteration, probes the probe queries sent to
\* each address, engines the engines constructed, devices the platform's
\* device list, errors the addresses whose iteration logged an error.
DiscoveryInit ==
  /\ Constructed /\ fnCall = Undefined /\ fnResult = Undefined
  /\ \E n \in 1..MaxIPs : \E ips \in [1..n -> Kinds] :
       discovery = [ips |-> ips, i |-> 1, pc |-> "factory", probes |-> [k \in 1..n |-> 0],
                    engines |-> << >>, devices |-> << >>, errors |-> << >>]

DiscoveryStep(d) == discovery' = d /\ UNCHANGED <<fnCall, fnResult, engineSide>>
\* the catch of an iteration: log.error, and the loop goes on
NextAddress(d, threw) ==
  [d EXCEPT !.i = @ + 1, !.pc = "factory",
            !.errors = IF threw THEN Append(@, d.i) ELSE @]

\* daikinMatterFactory -> getDeviceType -> queryDevice: the probe is sent
Probe ==
  /\ discovery.pc = "factory" /\ discovery.i <= Len(discovery.ips)
  /\ DiscoveryStep([discovery EXCEPT !.pc = "probing", !.probes[discovery.i] = @ + 1])

\* the probe is answered or fails, and the factory returns or throws
ProbeResponse ==
  /\ discovery.pc = "probing"
  /\ \E r \in ProbeResponses(discovery.ips[discovery.i]) :
       LET f == daikinMatterFactory(r)
       IN IF f.threw
          THEN DiscoveryStep(NextAddress(discovery, TRUE))
          ELSE DiscoveryStep([discovery EXCEPT
                 !.pc = "connect",
                 !.engines = Append(@, [ip |-> discovery.i, family |-> f.engine])])

\* device.connect() and createEndpoint(): on success the device joins the
\* list and is registered; a throw is caught by the iteration
ConnectDevice ==
  /\ discovery.pc = "connect"
  /\ \E ok \in BOOLEAN :
       IF ok
       THEN DiscoveryStep(NextAddress([discovery EXCEPT !.devices = Append(@, discovery.i)], FALSE))
       ELSE DiscoveryStep(NextAddress(discovery, TRUE))

DiscoveryNext ==
  \/ Probe
  \/ ProbeResponse
  \/ ConnectDevice

FactorySpec == DiscoveryInit /\ [][DiscoveryNext]_vars

\* Shutdown ----------------------------------------------------------------------------
\* The platform after discovery: config.unregisterOnShutdown (true, false or
\* not set), the devices of the list with their timer handle and timer, the
\* devices registered with Matterbridge, and the calls of onShutdown so far:
\* the position of the running call in its loop and what each finished call did
PlatformInit ==
  /\ Constructed /\ fnCall = Undefined /\ fnResult = Undefined
  /\ \E n \in 0..MaxIPs : \E armed \in [1..n -> BOOLEAN] : \E cfg \in {Undefined, Some(TRUE), Some(FALSE)} :
       discovery = [unregisterOnShutdown |-> cfg,
                    devices |-> [k \in 1..n |-> [refreshInterval |-> IF armed[k] THEN Some("interval") ELSE Undefined,
                                                  timerActive |-> armed[k]]],
                    registered |-> 1..n, pc |-> "idle", i |-> 1, calls |-> << >>]

PlatformStep(d) == discovery' = d /\ UNCHANGED <<fnCall, fnResult, engineSide>>

\* Variant of unregisters that ignores the setting
unregistersAlways(config) == TRUE
\* onShutdown's test of config.unregisterOnShutdown === true
unregisters(config) == config = Some(TRUE)

\* destroy() of the device d of the list
destroyDevice(d) ==
  [refreshInterval |-> Undefined,
   timerActive |-> IF d.refreshInterval # Undefined THEN FALSE ELSE d.timerActive]

\* the host changes the setting between two calls
ConfigChange ==
  /\ discovery.pc = "idle"
  /\ \E cfg \in {Undefined, Some(TRUE), Some(FALSE)} \ {discovery.unregisterOnShutdown} :
       PlatformStep([discovery EXCEPT !.unregisterOnShutdown = cfg])

\* onShutdown(reason): super.onShutdown and the log line
ShutdownStart ==
  /\ discovery.pc = "idle" /\ Len(discovery.calls) < MaxShutdowns
  /\ PlatformStep([discovery EXCEPT !.pc = "destroy", !.i = 1])

\* one iteration of the loop: await device.destroy()
ShutdownDestroy ==
  /\ discovery.pc = "destroy" /\ discovery.i <= Len(discovery.devices)
  /\ PlatformStep([discovery EXCEPT !.devices[discovery.i] = destroyDevice(@), !.i = @ + 1])

\* after the loop: unregisterAllDevices() when the setting is true, and return
ShutdownFinish ==
  /\ discovery.pc = "destroy" /\ discovery.i > Len(discovery.devices)
  /\ LET u == unregisters(discovery.unregisterOnShutdown)
     IN PlatformStep([discovery EXCEPT
          !.pc = "idle",
          !.registered = IF u THEN {} ELSE @,
          !.calls = Append(@, [unregistered |-> u, setting |-> discovery.unregisterOnShutdown,
                               threw |-> FALSE])])

ShutdownNext ==
  \/ ConfigChange
  \/ ShutdownStart
  \/ ShutdownDestroy
  \/ ShutdownFinish

ShutdownSpec == PlatformInit /\ [][ShutdownNext]_vars


\* Properties ---------------------------------------------------------------------------
IsCommand(i) == task[i].kind \in {"on", "off", "systemMode", "currentMode"}
IsRefresh(i) == task[i].kind = "tick"
\* from the first transport call of a refresh or of a command sequence until
\* its republish has finished
InFlight(i) == task[i].pc \in {"send", "query", "lock"} \/ i \in LockJobs
SendsBy(i) == SelectSeq(log, LAMBDA e : e.op = "send" /\ e.by = i)
QueriesBy(i) == SelectSeq(log, LAMBDA e : e.op = "query" /\ e.by = i)

\* C1: a refresh and a command sequence never interleave: while one of them is
\* between its first transport call and the end of its republish, the other
\* makes no transport call and no republish, i.e. the two are never in flight
\* together.
C1_NoInterleaving ==
  \A i, j \in Ids : IsRefresh(i) /\ IsCommand(j) => ~(InFlight(i) /\ InFlight(j))

\* C2: in the ordered log of transport calls, no call of another command lies
\* between a command's send and the query of its follow-up refresh.
C2_SendAndConfirmContiguous ==
  \A a, b, c \in 1..Len(log) :
    (/\ a < b /\ b < c
     /\ log[a].op = "send" /\ log[c].op = "query" /\ log[c].by = log[a].by)
    => log[b].by = log[a].by \/ ~IsCommand(log[b].by)

\* C3: a refresh whose answer has a malformed required field publishes nothing
\* and keeps state and tree: no refresh that gets past its fetch has taken a tree
\* with a malformed temperature leaf.
C3_MalformedRefreshPublishesNothing ==
  [][\A i \in Ids :
       (task[i].kind # "connect" /\ task[i].pc = "query" /\ task'[i].pc \notin {"query", "failed"})
       => Get(lastQueryResponse')[TEMP] # Malformed]_vars

\* the answers on which the claim says connect() fails
C4_Rejected(r) ==
  r.status # 200 \/ TEMP \notin DOMAIN r.tree \/ MAC \notin DOMAIN r.tree \/ r.tree[MAC] = ""

C5_AtMostOneWrite == \A i \in 1..MaxInv : Len(SendsBy(i)) <= 1

\* C5 amended: every on/off command and every attribute change sends at most
\* one write request, which carries all its leaves merged (power with the
\* operation sound on AC; mode with the humidify switch on AP), except the AC
\* systemMode change towards a mode while the device is off: that one sends the
\* power-on request first and the mode request, without the power leaf, second.
C5_OneWriteExceptModeWhileOff ==
  \A i \in 1..MaxInv :
    LET s == SendsBy(i)
    IN /\ Len(s) <= 2
       /\ task[i].kind \in {"on", "off"} /\ Len(s) >= 1
            => Len(s) = 1 /\ POWER \in DOMAIN s[1].patch
               /\ (family = "AC" => SOUND \in DOMAIN s[1].patch)
       /\ task[i].kind = "currentMode" /\ Len(s) >= 1
            => Len(s) = 1 /\ HUM_ON_AP \in DOMAIN s[1].patch
               /\ (MODE_AP \in DOMAIN s[1].patch \/ MODE_HUM_AP \in DOMAIN s[1].patch)
       /\ Len(s) = 2
            => /\ family = "AC" /\ task[i].kind = "systemMode"
               /\ s[1].patch = setPowerStatus("AC", TRUE)
               /\ MODE_AC \in DOMAIN s[2].patch /\ POWER \notin DOMAIN s[2].patch

C5_Witness ==
  \E i \in 1..MaxInv : task[i].kind = "systemMode" /\ task[i].pc = "done" /\ Len(SendsBy(i)) = 2

\* C6: every command invocation that has sent a write request and has ended has
\* issued the query of a refresh after that send, whatever the send's outcome.
C6_RefreshAfterEverySend ==
  \A i \in 1..MaxInv :
    (IsCommand(i) /\ Finished(task[i]))
    => \A a \in 1..Len(log) :
         (log[a].op = "send" /\ log[a].by = i)
         => \E c \in (a + 1)..Len(log) : log[c].op = "query" /\ log[c].by = i

\* C7: once destroy() has been called on a running engine the timer is cleared
\* and stays cleared (a further destroy() changes nothing), no timer tick
\* starts a refresh any more, the destroy() step itself leaves the invocations,
\* the lock and the engine's fields alone, and a refresh in flight at that
\* moment still ends.
C7_DestroyStopsTicks ==
  /\ [](timerActive <=> refreshInterval # Undefined)
  /\ [](destroyedRunning => ~timerActive)
  /\ [][destroyedRunning
        => \A i \in 1..MaxInv :
             (task'[i].kind = "tick" /\ task'[i].pc = "query")
             => (task[i].kind = "tick" /\ task[i].pc = "query")]_vars
  /\ [][(refreshInterval # Undefined /\ refreshInterval' = Undefined)
        => UNCHANGED <<task, lockHolder, lockQueue, attributes, currentState, lastQueryResponse>>]_vars
  /\ \A i \in 1..MaxInv :
       (destroyedRunning /\ task[i].pc \in {"query", "lock"}) ~> Finished(task[i])

C7_Witness ==
  /\ destroyedRunning /\ refreshInterval = Undefined
  /\ \E i \in 1..MaxInv : task[i].kind = "tick" /\ task[i].pc = "query"

\* C8: an invocation whose wait for the refresh section timed out has ended
\* with the timeout error.
C8_TimeoutReachesCaller ==
  \A i \in lockTimedOut : task[i].pc = "failed" /\ task[i].err = "locktimeout"

\* the engine's state and the published attributes are those of the device
Synced ==
  /\ currentState = Some(getCurrentStatus(family, dev))
  /\ attributes = Some(RestoreAttrs(family, Get(currentState)))

\* C9: a timer refresh that fails with a transport error leaves state, tree and
\* timer as they were; and if from some point on the timer stays armed, the
\* transport answers and the device is left alone, the state and the published
\* attributes are again and again those of the device.
C9_TransportErrorNotFatal ==
  /\ [][\A i \in 1..MaxInv :
          (task[i].kind = "tick" /\ task[i].pc = "query" /\ task'[i].pc = "failed")
          => UNCHANGED <<currentState, lastQueryResponse, refreshInterval, timerActive>>]_vars
  /\ ((<>[](timerActive /\ transportUp) /\ <>[][dev' = dev]_vars) => []<>Synced)

C9_Witness ==
  /\ timerActive /\ transportUp /\ Synced
  /\ \E i \in 1..MaxInv : task[i].kind = "tick" /\ task[i].pc = "failed" /\ task[i].err = "query"

\* C10: the delivery of a locally originated notification to its handler makes
\* no transport call, writes no attribute and starts nothing.
C10_OfflineIgnored ==
  [][(notif' # notif /\ notif' \subseteq notif)
     => UNCHANGED <<log, attributes, task, dev, lockHolder, lockQueue, engineVars>>]_vars

C10_Witness ==
  /\ notif # {} /\ lockHolder = << >>
  /\ \E i \in 1..MaxInv : IsCommand(i) /\ task[i].pc = "done"

\* Pure functions -------------------------------------------------------------------------
\* numbers m * 10^e compared by value
NumEq(a, b) ==
  LET lo == IF a.e < b.e THEN a.e ELSE b.e
  IN a.m * Pow(10, a.e - lo) = b.m * Pow(10, b.e - lo)

\* the call of op has returned (or thrown)
Returned(op) == fnCall # Undefined /\ fnCall.op = op /\ fnResult # Undefined

\* C14: decode(encode(value, md), md) is value truncated to the step granularity
\* of md (to its integer part when the scale is 0), for every value handed in,
\* negative values and values at and beyond the limits of the field's width
\* included.
C14_RoundTrip ==
  (Returned("roundtrip") /\ "value" \in DOMAIN fnResult)
  => LET step == decodeStepValue(fnCall.md.st)
     IN NumEq(fnResult.value,
              IF step.m = 0
              THEN [m |-> IntPart(fnCall.value), e |-> 0]
              ELSE [m |-> Quot(fnCall.value, step) * step.m, e |-> step.e])

\* the table of the claim: 1, 1e1, ..., 1e7, 1e-8, ..., 1e-1, as powers of ten
C15_Table == [i \in 0..15 |-> IF i <= 7 THEN i ELSE i - 16]

\* C15: for every step byte in 0..255 the scale is the low nibble times the
\* coefficient the high nibble selects from the table 1, 1e1, ..., 1e7, 1e-8,
\* ..., 1e-1; the step byte 0x00 gives the scale 0; with a scale of 0 encode
\* writes the integer itself and decode returns the integer read, unscaled; a
\* step byte outside 0..255 throws a RangeError.
C15_StepScale ==
  /\ Returned("decodeStepValue")
     => IF fnCall.st \in 0..255
        THEN /\ fnResult = [value |-> [m |-> fnCall.st % 16, e |-> C15_Table[fnCall.st \div 16]]]
             /\ (fnCall.st = 0 => fnResult.value.m = 0)
        ELSE fnResult = [error |-> "RangeError"]
  /\ (Returned("roundtrip") /\ fnCall.md.st % 16 = 0)
     => /\ fnResult.pv = convertEndian(Parser_toSignedHex(IntPart(fnCall.value), fnCall.md.mx))
        /\ "value" \in DOMAIN fnResult
           => fnResult.value =
                [m |-> Parser_parseSignedHex(convertEndian(fnResult.pv), Len(fnResult.pv)), e |-> 0]

C15_Witness ==
  /\ Returned("decodeStepValue") /\ fnCall.st = 245
  /\ fnResult = [value |-> [m |-> 5, e |-> -1]]

\* the leaf that path names when every segment is followed exactly, if there is one
RECURSIVE StrictLeaf(_, _)
StrictLeaf(nodes, path) ==
  LET hits == {k \in 1..Len(nodes) : nodes[k].pn = path[1]}
      el == nodes[CHOOSE k \in hits : \A j \in hits : k <= j]
  IN IF hits = {} THEN Undefined
     ELSE IF Len(path) = 1 THEN (IF "pv" \in DOMAIN el THEN Some(el) ELSE Undefined)
     ELSE IF "pch" \in DOMAIN el THEN StrictLeaf(el.pch, SubSeq(path, 2, Len(path)))
     ELSE Undefined

\* frame and path resolve to a leaf (with metadata, when needMd)
Resolves(data, fr, path, needMd) ==
  /\ HasResponses(data)
  /\ \E k \in 1..Len(data.responses) : data.responses[k].fr = fr
  /\ LET l == StrictLeaf(FrameRoot(data, fr), path)
     IN l # Undefined /\ (needMd => "md" \in DOMAIN Get(l))

\* C16: extractValueString, extractValueInt and extractValueFloat return
\* undefined, without an error, whenever frame and path do not resolve to a leaf
\* (for the two numeric ones: to a leaf with metadata).
C16_AbsentIsUndefined ==
  \A op \in {"extractValueString", "extractValueInt", "extractValueFloat"} :
    (Returned(op) /\ ~Resolves(Data(fnCall.data), fnCall.fr, fnCall.path, op # "extractValueString"))
    => fnResult = [value |-> Undefined]

\* the nodes of a tree in document order, each with its path
RECURSIVE Flatten(_, _)
Flatten(nodes, prefix) ==
  IF nodes = << >> THEN << >>
  ELSE LET n == Head(nodes)
           here == Append(prefix, n.pn)
       IN (IF "pch" \in DOMAIN n
           THEN <<[path |-> here, node |-> [pn |-> n.pn]]>> \o Flatten(n.pch, here)
           ELSE <<[path |-> here, node |-> n]>>)
          \o Flatten(Tail(nodes), prefix)

Prefixes(path) == {SubSeq(path, 1, n) : n \in 1..Len(path)}

\* C17: merging a single-leaf patch for an existing path into a tree changes
\* the pv of that leaf and nothing else (every node keeps name, value, metadata
\* and position); merging two single-leaf patches for different leaves gives a
\* tree with exactly the branches of the two paths, each once, and the two
\* leaves, each once, with the value of its patch.
C17_CombineObject ==
  Returned("combineObject")
  => LET before == Flatten(fnCall.dst, << >>)
         patch == Flatten(fnCall.src, << >>)
         after == Flatten(fnResult.value, << >>)
         new == patch[Len(patch)].node
     IN IF Len(fnCall.paths) = 1
        THEN /\ Len(after) = Len(before)
             /\ \A k \in 1..Len(before) :
                  after[k] = IF before[k].path = fnCall.paths[1]
                             THEN [before[k] EXCEPT !.node.pv = new.pv]
                             ELSE before[k]
        ELSE /\ {after[k].path : k \in 1..Len(after)} = Prefixes(fnCall.paths[1]) \cup Prefixes(fnCall.paths[2])
             /\ Len(after) = Cardinality(Prefixes(fnCall.paths[1]) \cup Prefixes(fnCall.paths[2]))
             /\ \A k \in 1..Len(after) :
                  /\ after[k].path = fnCall.paths[1] => after[k].node = before[Len(before)].node
                  /\ after[k].path = fnCall.paths[2] => after[k].node = new

C17_Witness ==
  /\ Returned("combineObject")
  /\ fnCall.paths = <<<<"e_1002", "e_3001", "p_02">>, <<"e_1002", "e_3001", "p_03">>>>
  /\ Len(fnResult.value) = 1 /\ Len(fnResult.value[1].pch) = 1
  /\ Len(fnResult.value[1].pch[1].pch) = 2

\* C18: encodePvInt / encodePvFloat on a path that resolves to a leaf with
\* metadata return the chain of the branches the path names with one leaf, which
\* holds the encoded value and no metadata; on every other path they throw.
C18_FragmentOrError ==
  Returned("encodePv")
  => IF Resolves(Data(fnCall.data), fnCall.fr, fnCall.path, TRUE)
     THEN LET md == Get(StrictLeaf(FrameRoot(Data(fnCall.data), fnCall.fr), fnCall.path)).md
              frag == Flatten(fnResult.value, << >>)
          IN /\ "value" \in DOMAIN fnResult
             /\ [k \in 1..Len(frag) |-> frag[k].path] = [k \in 1..Len(fnCall.path) |-> SubSeq(fnCall.path, 1, k)]
             /\ frag[Len(frag)].node =
                  [pn |-> fnCall.path[Len(fnCall.path)],
                   pv |-> Parser_encodePv(IF fnCall.int THEN [m |-> IntPart(fnCall.pv), e |-> 0]
                                          ELSE fnCall.pv, md)]
     ELSE fnResult = [error |-> "Error"]

\* C20 as stated: the patch of setTargetTemperature for Heat, Cool or Auto has
\* the target temperature field of the mode as its only leaf.
C20_OnlyTemperatureLeaf ==
  (Returned("setTargetTemperature") /\ fnCall.mode \in {1, 2, 3})
  => LET patch == Flatten(Get(fnResult.value), << >>)
     IN {k \in 1..Len(patch) : "pv" \in DOMAIN patch[k].node} = {Len(patch)}

\* C20 amended: the patch of setTargetTemperature for Heat, Cool or Auto has
\* exactly two leaves under one e_1002 branch: the operation sound
\* (e_1002/e_3003/p_2D) set to RemoconSoundOnly and the target temperature field
\* of the mode (p_03, p_02, p_1F under e_1002/e_3001) encoded from the
\* temperature with that field's metadata: 25.5 in steps of 0.5 is 0x33.
C20_TemperatureAndSound ==
  (Returned("setTargetTemperature") /\ fnCall.mode \in {1, 2, 3})
  => LET pn == CASE fnCall.mode = 1 -> "p_03" [] fnCall.mode = 2 -> "p_02" [] OTHER -> "p_1F"
         pv == <<Trunc(fnCall.temperature.m, 5)>>
     IN /\ Flatten(Get(fnResult.value), << >>) =
             <<[path |-> <<"e_1002">>, node |-> [pn |-> "e_1002"]],
               [path |-> <<"e_1002", "e_3003">>, node |-> [pn |-> "e_3003"]],
               [path |-> <<"e_1002", "e_3003", "p_2D">>, node |-> [pn |-> "p_2D", pv |-> <<RemoconSoundOnly>>]],
               [path |-> <<"e_1002", "e_3001">>, node |-> [pn |-> "e_3001"]],
               [path |-> <<"e_1002", "e_3001", pn>>, node |-> [pn |-> pn, pv |-> pv]]>>
        /\ (fnCall.mode = Cool /\ fnCall.temperature = [m |-> 255, e |-> -1]) => pv = <<51>>

C20_Witness ==
  /\ Returned("setTargetTemperature") /\ fnCall.mode = Cool
  /\ fnCall.temperature = [m |-> 255, e |-> -1]
  /\ Len(Flatten(Get(fnResult.value), << >>)) = 5

\* the thresholds of the claim: the percent up to which each level reaches
C19_Thresholds(kind) == IF kind = "ACFan" THEN <<0, 10, 20, 30, 40, 50, 100>> ELSE <<0, 33, 66, 100>>
\* the place of a level in the order of its kind
C19_Rank(kind, level) == CHOOSE k \in 1..Len(Levels(kind)) : Levels(kind)[k] = level

\* C19: in each family percent-to-level is monotonic non-decreasing over 0..100
\* in the order of the levels, maps 0 to the lowest and 100 to the highest
\* level, and follows the family's thresholds (AP fan and humidify 0/33/66/100,
\* AC fan 0/10/20/30/40/50/100): a percent maps to the first level whose
\* threshold is not below it; level-to-percent gives the level's threshold, and
\* percent-to-level of that returns the level.
C19_PercentMapping ==
  /\ Returned("fromPercent")
     => LET t == C19_Thresholds(fnCall.kind)
            r == C19_Rank(fnCall.kind, fnResult.level)
        IN /\ Len(t) = Len(Levels(fnCall.kind))
           /\ fnCall.percent <= t[r] /\ (r > 1 => t[r - 1] < fnCall.percent)
           /\ \A q \in 0..fnCall.percent : C19_Rank(fnCall.kind, FromPercent(fnCall.kind, q)) <= r
           /\ (fnCall.percent = 0 => r = 1)
           /\ (fnCall.percent = 100 => r = Len(t))
  /\ Returned("toPercent")
     => /\ fnResult.percent = C19_Thresholds(fnCall.kind)[C19_Rank(fnCall.kind, fnCall.level)]
        /\ fnResult.level = fnCall.level

C19_Witness ==
  /\ Returned("toPercent") /\ fnCall.kind = "ACFan" /\ fnCall.level = 6
  /\ fnResult = [percent |-> 50, level |-> 6]

\* C13: after the patch of setOperationModeAndHumidify(tree, mode, h) for a mode
\* that forces auto-humidify (Auto, Throat) has been applied to the device
\* tree, the decoded state has that mode and the humidify level Auto, whatever
\* level h was requested and whatever humidify switch, level and modes the tree
\* held before.
C13_ForcedModeDecodesAuto ==
  (Returned("setOperationModeAndHumidify") /\ "state" \in DOMAIN fnResult
   /\ fnCall.mode \in {0, 5})
  => fnResult.state.mode = fnCall.mode /\ fnResult.state.humidifyLevel = HumAuto

C13_Witness ==
  /\ Returned("setOperationModeAndHumidify") /\ "state" \in DOMAIN fnResult
  /\ fnCall.mode = 5 /\ fnCall.humidify = 2 /\ fnCall.on = "00" /\ fnCall.level = 3
  /\ fnResult.state.humidifyLevel = HumAuto

\* the addresses whose iteration is over
C12_Done == 1..(discovery.i - 1)
\* the families of the engines constructed for address k
C12_Engines(k) == {discovery.engines[n].family : n \in {n \in 1..Len(discovery.engines) : discovery.engines[n].ip = k}}
C12_Listed(k) == \E n \in 1..Len(discovery.devices) : discovery.devices[n] = k
C12_Logged(k) == \E n \in 1..Len(discovery.errors) : discovery.errors[n] = k

\* C12: the factory sends exactly one probe per address; the tag 'RA' yields an
\* air-conditioner engine and the tag '1D' an air-purifier engine; any other
\* tag, a missing tag or a failed probe makes the factory fail without
\* constructing an engine, and then discovery adds no device for the address,
\* logs the error and goes on to the next address, so that no address before
\* the current one was left out.
C12_FactoryAndDiscovery ==
  /\ \A k \in 1..Len(discovery.ips) :
       /\ discovery.probes[k] = (IF k < discovery.i \/ (k = discovery.i /\ discovery.pc # "factory") THEN 1 ELSE 0)
       /\ C12_Listed(k) => k \in C12_Done
  /\ \A k \in C12_Done \cup {k \in {discovery.i} : discovery.pc = "connect"} :
       /\ discovery.ips[k] = "RA" => C12_Engines(k) = {"AC"}
       /\ discovery.ips[k] = "1D" => C12_Engines(k) = {"AP"}
       /\ discovery.ips[k] \notin {"RA", "1D"}
          => C12_Engines(k) = {} /\ ~C12_Listed(k) /\ C12_Logged(k)
  /\ discovery.i <= Len(discovery.ips) + 1
  /\ discovery.pc = "factory" \/ discovery.i <= Len(discovery.ips)

C12_Witness ==
  /\ discovery.ips = <<"XX", "1D">> /\ discovery.i = 3
  /\ discovery.probes = <<1, 1>>
  /\ discovery.engines = <<[ip |-> 2, family |-> "AP"]>>
  /\ discovery.devices = <<2>> /\ discovery.errors = <<1>>

\* C11: when a controller writes fanMode or percentSetting of the humidify
\* endpoint (AP) while the mode of the current state forces auto-humidify, or
\* writes a fanMode that has no humidify level, the handler sends nothing to
\* the device, the attribute is back at the value it had before the write, and
\* the handler ends without an error.
C11_RejectedHumidifyReverts ==
  [][\A i \in 1..MaxInv : \A attr \in HumidifyAttrs :
       (/\ task[i].kind # attr /\ task'[i].kind = attr
        /\ \/ DaikinModeAPForceAutoHumidifyMap(Get(currentState).mode)
           \/ attr = "humidifyFanMode" /\ task'[i].arg \in {"Auto", "On", "Smart"})
       => /\ log' = log
          /\ task'[i].pc = "done"
          /\ Get(attributes')[attr] = Get(attributes)[attr]]_vars

C22_FanSpeedRoundTrip ==
  Returned("setFanSpeedAndHumidify")
  => LET fixed == fnCall.humidify \in {1, 2, 3}
         written == IF fixed THEN FAN_HUM_AP ELSE FAN_AP
         other == IF fixed THEN FAN_AP ELSE FAN_HUM_AP
     IN /\ written \in DOMAIN fnResult.patch /\ other \notin DOMAIN fnResult.patch
        /\ fnResult.patch[written] = encodeFanSpeed(fnCall.speed)
        /\ HUM_ON_AP \in DOMAIN fnResult.patch
        /\ fnResult.patch[HUM_ON_AP] = (IF fixed THEN "02" ELSE "00")
        /\ fnResult.state.fanSpeed = fnCall.speed

C22_Witness ==
  /\ Returned("setFanSpeedAndHumidify")
  /\ fnCall.speed = 4 /\ fnCall.humidify = 2 /\ fnCall.on = "00" /\ fnCall.stored = 0
  /\ fnResult.state.fanSpeed = 4 /\ FAN_HUM_AP \in DOMAIN fnResult.patch

\* a step in which a fetch whose query and decode succeeded assigns the
\* current state and the last-known tree from its answer
C23_FetchAssigns ==
  /\ \E i \in Ids : task[i].pc \in {"query", "prefetch"} /\ task'[i] # task[i]
  /\ \E r \in Responses(dev, transportUp) :
       /\ r.status = 200 /\ ~getCurrentStatusThrows(family, r.tree)
       /\ lastQueryResponse' = Some(r.tree)
       /\ currentState' = Some(getCurrentStatus(family, r.tree))

C24_LastQuerier ==
  LET qs == {n \in 1..Len(log) : log[n].op = "query"}
  IN log[CHOOSE n \in qs : \A m \in qs : m <= n].by

\* C24: once every invocation has completed and the lock is free, the tree and
\* the state of the engine are those of the answer to the most recently issued
\* query (when that query succeeded): the answer to an older query has not
\* replaced them.
C24_NewestQueryWins ==
  (/\ \A i \in Ids : Finished(task[i])
   /\ lockHolder = << >> /\ lockQueue = << >>
   /\ task[0].kind = "register"
   /\ task[C24_LastQuerier].pc = "done" /\ task[C24_LastQuerier].todo # << >>)
  => LET r == task[C24_LastQuerier].todo[1]
     IN /\ lastQueryResponse = Some(r.tree)
        /\ currentState = Some(getCurrentStatus(family, r.tree))

\* C25: once connect() has succeeded, the current state is defined in every
\* later state: while registerWithPlatform is running, after its initial
\* refresh has failed, and whenever a handler or restoreState() reads it.
C25_StateDefinedAfterConnect ==
  ((task[0].kind = "connect" /\ task[0].pc = "done") \/ task[0].kind = "register")
  => currentState # Undefined

\* C26: once registerWithPlatform() and destroy() have both returned, in
\* whatever order they ran, no refresh timer is armed and no handle is kept.
C26_NoTimerAfterDestroy ==
  (discovery.shutdown /\ task[0].kind = "register" /\ Finished(task[0]))
  => ~timerActive /\ refreshInterval = Undefined

\* C27: no write request sent to an air purifier carries the placeholder level
\* Auto (100, 0x64) as the fan speed (p_04, p_06) or as the humidify level
\* (p_13).
C27_NoAutoPlaceholderSent ==
  \A n \in 1..Len(log) :
    log[n].op = "send"
    => \A l \in {FAN_AP, FAN_HUM_AP, HUM_LEVEL_AP} \cap DOMAIN log[n].patch :
         log[n].patch[l] # encodeFanSpeed(FanAuto)

\* C28: extractValueString, extractValueInt / extractValueFloat, extractObject
\* (extractMinMax) and encodePv return a value or a fragment only when the
\* frame exists, every segment of the path, in order, names a child of the node
\* the segment before it reached, and the last segment names a leaf.
C28_StrictResolution ==
  \A op \in {"extractValueString", "extractValueInt", "extractValueFloat", "extractObject", "encodePv"} :
    (Returned(op) /\ "value" \in DOMAIN fnResult /\ fnResult.value # Undefined)
    => Resolves(Data(fnCall.data), fnCall.fr, fnCall.path, FALSE)

\* C29: every fan-speed write of the AC engine that the device applies sets the
\* fan speed of the mode the device is in at that moment to the requested speed,
\* so that the refresh after it reports the requested speed.
C29_FanSpeedWritesActualMode ==
  [][\A i \in Ids :
       (task[i].kind = "fanMode" /\ task[i].pc = "send" /\ task'[i].pc = "query")
         => getFanSpeedAC(dev') = speedModeOf(task[i].arg)]_vars

====
